---------------------------- MODULE Spec2Model ----------------------------
(***************************************************************************)
(* Model of the shortcutter picker (internal/ui.go): the bubbletea model   *)
(* struct, its Update handler and the helpers Update calls.  Text is a     *)
(* string, read character by character as the Go code reads it: the        *)
(* character at index i of s is SubSeq(s, i, i), a one-character string.   *)
(***************************************************************************)
EXTENDS Integers, Sequences, FiniteSets, TLC

Max(a, b) == IF a >= b THEN a ELSE b

(***************************************************************************)
(* Characters.  Go runes are modelled as one-character strings; NUL is the *)
(* zero rune the fuzzy matcher uses for "no next character".               *)
(***************************************************************************)
NUL == "NUL"

\* the character at the 1-based index i of the string s
At(s, i) == SubSeq(s, i, i)

UpperChars ==
  <<"A","B","C","D","E","F","G","H","I","J","K","L","M",
    "N","O","P","Q","R","S","T","U","V","W","X","Y","Z">>

LowerChars ==
  <<"a","b","c","d","e","f","g","h","i","j","k","l","m",
    "n","o","p","q","r","s","t","u","v","w","x","y","z">>

UpperSet == {UpperChars[i] : i \in 1..Len(UpperChars)}

LowerSet == {LowerChars[i] : i \in 1..Len(LowerChars)}

LowerMap ==
  [c \in UpperSet |-> LowerChars[CHOOSE i \in 1..Len(UpperChars) : UpperChars[i] = c]]

IsUpper(c) == c \in UpperSet

IsLower(c) == c \in LowerSet

ToLower(c) == IF c \in UpperSet THEN LowerMap[c] ELSE c

\* r >= 32 && r < 127 : the printable ASCII range tested by Update's default case
\* (all of it but the double quote and the backquote, which are not typed in
\* the model)
PrintableASCII ==
  {" ","!","#","$","%","&","'","(",")","*","+",",","-",".","/",
   "0","1","2","3","4","5","6","7","8","9",":",";","<","=",">","?","@",
   "A","B","C","D","E","F","G","H","I","J","K","L","M",
   "N","O","P","Q","R","S","T","U","V","W","X","Y","Z",
   "[","]","^","_",
   "a","b","c","d","e","f","g","h","i","j","k","l","m",
   "n","o","p","q","r","s","t","u","v","w","x","y","z",
   "{","|","}","~","\\"}

IsPrintable(r) == r \in PrintableASCII

\* unicode.IsSpace on the characters strings.Fields splits at
IsSpace(c) == c \in {" ", "\t", "\n", "\r"}

(***************************************************************************)
(* fuzzy.Find of github.com/sahilm/fuzzy, called by filterShortcuts.  A     *)
(* target matches when the pattern's characters occur in it in order,      *)
(* compared case-insensitively; a match is scored and the matches are      *)
(* returned by descending score.                                           *)
(***************************************************************************)
firstCharMatchBonus == 10

matchFollowingSeparatorBonus == 20

camelCaseMatchBonus == 20

adjacentMatchBonus == 5

unmatchedLeadingCharPenalty == -5

maxUnmatchedLeadingCharPenalty == -15

isSeparator(c) == c \in {"/", "-", "_", " ", ".", "\\"}

\* equalFold with a fault: the letters are compared as written
equalFoldExact(tr, sr) == tr = sr

equalFold(tr, sr) == ToLower(tr) = ToLower(sr)

adjacentCharBonus(i, lastMatch, currentBonus) ==
  IF lastMatch = i THEN currentBonus * 2 + adjacentMatchBonus ELSE 0

\* State of the scan of one target: indices are 0-based as in the Go code.
ScanStart ==
  [patternIndex |-> 0, bestScore |-> -1, matchedIndex |-> -1,
   currAdjacentMatchBonus |-> 0, last |-> NUL, lastIndex |-> 0,
   MatchedIndexes |-> <<>>, Score |-> 0]

\* One iteration of the loop over the target's characters (j is 0-based).
ScanStep(runes, str, j, s) ==
  LET candidate == At(str, j + 1)
      hit == equalFold(candidate, At(runes, s.patternIndex + 1))
      bonus == IF hit /\ Len(s.MatchedIndexes) > 0
               THEN adjacentCharBonus(s.lastIndex,
                      s.MatchedIndexes[Len(s.MatchedIndexes)],
                      s.currAdjacentMatchBonus)
               ELSE 0
      score == (IF j = 0 THEN firstCharMatchBonus ELSE 0)
               + (IF IsLower(s.last) /\ IsUpper(candidate)
                  THEN camelCaseMatchBonus ELSE 0)
               + (IF j # 0 /\ isSeparator(s.last)
                  THEN matchFollowingSeparatorBonus ELSE 0)
               + bonus
      better == hit /\ score > s.bestScore
      best1 == IF better THEN score ELSE s.bestScore
      matched1 == IF better THEN j ELSE s.matchedIndex
      curr1 == s.currAdjacentMatchBonus + bonus
      nextp == IF s.patternIndex < Len(runes) - 1
               THEN At(runes, s.patternIndex + 2) ELSE NUL
      nextc == IF j + 1 < Len(str) THEN At(str, j + 2) ELSE NUL
      apply == (equalFold(nextp, nextc) \/ nextc = NUL) /\ matched1 > -1
      penalty == IF Len(s.MatchedIndexes) = 0
                 THEN Max(matched1 * unmatchedLeadingCharPenalty,
                          maxUnmatchedLeadingCharPenalty)
                 ELSE 0
  IN  [patternIndex |-> IF apply THEN s.patternIndex + 1 ELSE s.patternIndex,
       bestScore |-> IF apply THEN -1 ELSE best1,
       matchedIndex |-> matched1,
       currAdjacentMatchBonus |-> curr1,
       last |-> candidate,
       lastIndex |-> j,
       MatchedIndexes |-> IF apply THEN Append(s.MatchedIndexes, matched1)
                          ELSE s.MatchedIndexes,
       Score |-> IF apply THEN s.Score + best1 + penalty ELSE s.Score]

\* The loop over the target's characters.  The last pattern character is
\* applied only at the target's last character (nextp is then NUL), so
\* patternIndex reaches Len(runes) only when the loop ends.
RECURSIVE Scan(_, _, _, _)
Scan(runes, str, j, s) ==
  IF s.patternIndex >= Len(runes) \/ j >= Len(str) THEN s
  ELSE Scan(runes, str, j + 1, ScanStep(runes, str, j, s))

\* The Match of one target: whether all pattern characters were matched, and
\* the score with the penalty for each unmatched character.
MatchOf(runes, str, index) ==
  LET s == Scan(runes, str, 0, ScanStart)
  IN  [Index |-> index,
       ok |-> Len(s.MatchedIndexes) = Len(runes),
       Score |-> s.Score + (Len(s.MatchedIndexes) - Len(str))]

\* sort.Stable with Less(i, j) == Score[i] >= Score[j]: for up to 20 matches one
\* insertion sort, in which an element moves left past every element whose
\* score is not greater than its own.
InsertMatch(sorted, x) ==
  LET keep == {i \in 1..Len(sorted) : sorted[i].Score > x.Score}
      k == Cardinality(keep)
  IN  SubSeq(sorted, 1, k) \o <<x>> \o SubSeq(sorted, k + 1, Len(sorted))

RECURSIVE insertionSort(_, _)
insertionSort(matches, n) ==
  IF n = 0 THEN <<>> ELSE InsertMatch(insertionSort(matches, n - 1), matches[n])

RECURSIVE FindFromNoSort(_, _, _)
FindFromNoSort(runes, data, i) ==
  IF i > Len(data) THEN <<>>
  ELSE LET m == MatchOf(runes, data[i], i)
       IN  (IF m.ok THEN <<m>> ELSE <<>>) \o FindFromNoSort(runes, data, i + 1)

Find(pattern, data) ==
  IF Len(pattern) = 0 THEN <<>>
  ELSE LET matches == FindFromNoSort(pattern, data, 1)
       IN  insertionSort(matches, Len(matches))


(***************************************************************************)
(* Catalogs handed to InitialModel.  A Shortcut is the struct of           *)
(* shortcuts.go.  TestShortcuts is the catalog of TestModelUpdate, whose   *)
(* entries have no FullDescription.  ZshShortcuts is more than one page of *)
(* the list: the first ten entries of getZshBuiltinShortcuts and its entry *)
(* for history-incremental-search-backward, that one with a man-page       *)
(* paragraph as enhanceShortcutsWithManPages stores it in FullDescription, *)
(* long enough to wrap to more lines than the description pane shows.      *)
(***************************************************************************)

(***************************************************************************)
(* internal/escape.go: the labels of zsh escape sequences.  The arrows the *)
(* code returns are not ASCII; the model writes each as its code point.    *)
(***************************************************************************)
UpperMap ==
  [c \in LowerSet |-> UpperChars[CHOOSE i \in 1..Len(LowerChars) : LowerChars[i] = c]]

\* strings.ToUpper of a one-character string
ToUpper(c) == IF c \in LowerSet THEN UpperMap[c] ELSE c

\* strings.HasPrefix
HasPrefix(s, prefix) ==
  Len(s) >= Len(prefix) /\ SubSeq(s, 1, Len(prefix)) = prefix

\* s[n:]
From(s, n) == SubSeq(s, n + 1, Len(s))

\* strings.Split(s, sep) for a one-character sep
RECURSIVE Split(_, _)
Split(s, sep) ==
  IF \A i \in 1..Len(s) : At(s, i) # sep THEN <<s>>
  ELSE LET i == CHOOSE i \in 1..Len(s) :
                  At(s, i) = sep /\ \A k \in 1..(i - 1) : At(s, k) # sep
       IN  <<SubSeq(s, 1, i - 1)>> \o Split(From(s, i), sep)

ArrowUp == "U+2191"

ArrowDown == "U+2193"

ArrowRight == "U+2192"

ArrowLeft == "U+2190"

normalizeSpecialSequence(seq) ==
  IF ~HasPrefix(seq, "[") THEN seq
  ELSE CASE seq = "[A" -> ArrowUp
         [] seq = "[B" -> ArrowDown
         [] seq = "[C" -> ArrowRight
         [] seq = "[D" -> ArrowLeft
         [] seq = "[H" -> "Home"
         [] seq = "[F" -> "End"
         [] seq = "[1~" -> "Home"
         [] seq = "[2~" -> "Insert"
         [] seq = "[3~" -> "Delete"
         [] seq = "[4~" -> "End"
         [] seq = "[5~" -> "Page Up"
         [] seq = "[6~" -> "Page Down"
         [] OTHER -> seq

\* basicControl with a fault: a lower-case letter keeps its case
basicControlKeepsCase(char) ==
  CASE char = "@" -> "Ctrl+@"
    [] char = "[" -> "Esc"
    [] char = "\\" -> "Ctrl+\\"
    [] char = "]" -> "Ctrl+]"
    [] char = "^" -> "Ctrl+^"
    [] char = "_" -> "Ctrl+_"
    [] char = "?" -> "Backspace"
    [] OTHER -> "Ctrl+" \o char

\* the switch on the second character of a two-character sequence; the
\* characters it has no case for fall through to the rest of the function
basicControl(char) ==
  CASE char = "@" -> "Ctrl+@"
    [] char = "[" -> "Esc"
    [] char = "\\" -> "Ctrl+\\"
    [] char = "]" -> "Ctrl+]"
    [] char = "^" -> "Ctrl+^"
    [] char = "_" -> "Ctrl+_"
    [] char = "?" -> "Backspace"
    [] char \in UpperSet -> "Ctrl+" \o char
    [] char \in LowerSet -> "Ctrl+" \o ToUpper(char)
    [] OTHER -> ""

hasBasicControl(char) ==
  char \in {"@", "[", "\\", "]", "^", "_", "?"} \cup UpperSet \cup LowerSet

\* a single character after ^[ : every case of the switch, and its default,
\* return "Alt+" and the character, but for the letters and the space
altSingle(char) ==
  IF char \in LowerSet THEN "Alt+" \o ToUpper(char)
  ELSE IF char \in UpperSet THEN "Alt+" \o char
  ELSE IF char = " " THEN "Alt+Space"
  ELSE "Alt+" \o char

\* the loop over the parts of strings.Split(seq, "^"), from part i (0-based)
RECURSIVE chordLoop(_, _, _)
chordLoop(parts, i, result) ==
  IF i >= Len(parts) THEN result
  ELSE LET part == parts[i + 1]
       IN  IF part = "" \/ i = 0 THEN chordLoop(parts, i + 1, result)
           ELSE LET sep == IF result # "" THEN " " ELSE ""
                    piece == IF Len(part) = 1 THEN "Ctrl+" \o ToUpper(part)
                             ELSE "^" \o part
                IN  chordLoop(parts, i + 1, result \o sep \o piece)

RECURSIVE normalizeControlSequence(_)
normalizeControlSequence(seq) ==
  IF Len(seq) < 2 THEN seq
  ELSE IF Len(seq) = 2 /\ At(seq, 1) = "^" /\ hasBasicControl(At(seq, 2))
  THEN basicControl(At(seq, 2))
  ELSE IF Len(seq) >= 3 /\ SubSeq(seq, 1, 2) = "^["
  THEN LET rest == From(seq, 2)
       IN  IF Len(rest) >= 2 /\ At(rest, 1) = "^"
           THEN LET ctrlPart == normalizeControlSequence(rest)
                IN  IF HasPrefix(ctrlPart, "Ctrl+") THEN "Alt+" \o ctrlPart
                    ELSE "Alt+Ctrl+" \o From(rest, 1)
           ELSE IF rest = "[A" THEN ArrowUp
           ELSE IF rest = "[B" THEN ArrowDown
           ELSE IF rest = "[C" THEN ArrowRight
           ELSE IF rest = "[D" THEN ArrowLeft
           ELSE IF HasPrefix(rest, "[") THEN normalizeSpecialSequence(rest)
           ELSE IF Len(rest) = 1 THEN altSingle(rest)
           ELSE "Alt+" \o rest
  ELSE IF (\E i \in 1..Len(seq) : At(seq, i) = "^") /\ Len(seq) > 2
  THEN chordLoop(Split(seq, "^"), 0, "")
  ELSE seq

\* unicode.IsPrint on a byte of the ASCII range (the backquote, which a TLA+
\* string cannot hold, is no input of the model)
IsPrint(c) == c \in PrintableASCII \cup {"\""}

RECURSIVE normalizeEscapeSequence(_)
normalizeEscapeSequence(seq) ==
  IF seq = "" THEN ""
  ELSE IF Len(seq) = 1 /\ IsPrint(At(seq, 1)) /\ At(seq, 1) # "^" THEN seq
  ELSE IF HasPrefix(seq, "^") THEN normalizeControlSequence(seq)
  ELSE IF Len(seq) >= 2 /\ At(seq, 1) = "\"" /\ At(seq, Len(seq)) = "\""
  THEN normalizeEscapeSequence(SubSeq(seq, 2, Len(seq) - 1))
  ELSE seq

(***************************************************************************)
(* internal/bindkey.go: the parser of the output of zsh's bindkey.         *)
(* A BindkeyEntry is a record of its three fields; a nil slice is <<>>.    *)
(***************************************************************************)
\* bufio.MaxScanTokenSize, the largest line bufio.NewScanner buffers
MaxScanTokenSize == 65536

ErrTooLong == "error reading bindkey output: bufio.Scanner: token too long"

ErrExec == "failed to execute bindkey command"

\* bufio.ScanLines drops one carriage return at the end of a line
dropCR(line) ==
  IF Len(line) > 0 /\ At(line, Len(line)) = "\r"
  THEN SubSeq(line, 1, Len(line) - 1) ELSE line

\* the stretches of text between newlines; what follows the last newline is a
\* line only if it is not empty
RawLines(text) ==
  LET parts == Split(text, "\n")
  IN  IF parts[Len(parts)] = "" THEN SubSeq(parts, 1, Len(parts) - 1) ELSE parts

\* scanner.Scan stops with ErrTooLong when its buffer of MaxScanTokenSize bytes
\* is full and holds no newline
TooLong(text) ==
  LET lines == RawLines(text)
  IN  \E i \in 1..Len(lines) : Len(lines[i]) >= MaxScanTokenSize

\* strings.TrimSpace
TrimSpace(s) ==
  IF \A i \in 1..Len(s) : IsSpace(At(s, i)) THEN ""
  ELSE LET b == CHOOSE b \in 1..Len(s) :
                  ~IsSpace(At(s, b)) /\ \A k \in 1..(b - 1) : IsSpace(At(s, k))
           e == CHOOSE e \in 1..Len(s) :
                  ~IsSpace(At(s, e)) /\ \A k \in (e + 1)..Len(s) : IsSpace(At(s, k))
       IN  SubSeq(s, b, e)

\* the index of the first double quote of s after index i, 0 if there is none
NextQuote(s, i) ==
  IF \A k \in (i + 1)..Len(s) : At(s, k) # "\"" THEN 0
  ELSE CHOOSE k \in (i + 1)..Len(s) :
         At(s, k) = "\"" /\ \A n \in (i + 1)..(k - 1) : At(s, n) # "\""

\* rangeRegex.MatchString(line): ^"[^"]*"-"[^"]*"
rangeRegex(line) ==
  /\ HasPrefix(line, "\"")
  /\ LET j == NextQuote(line, 1)
     IN  /\ j > 0
         /\ Len(line) >= j + 2
         /\ SubSeq(line, j + 1, j + 2) = "-\""
         /\ NextQuote(line, j + 2) > 0

\* the characters of a widget name: [a-zA-Z0-9_.-]
WidgetChars ==
  UpperSet \cup LowerSet \cup
  {"0", "1", "2", "3", "4", "5", "6", "7", "8", "9", "_", ".", "-"}

\* bindkeyRegex.FindStringSubmatch(line): ^"([^"]*)" +([a-zA-Z0-9_.-]+)$
\* gives <<>> when the line does not match
bindkeyRegex(line) ==
  IF ~HasPrefix(line, "\"") \/ NextQuote(line, 1) = 0 THEN <<>>
  ELSE LET j == NextQuote(line, 1)
           k == IF \A n \in (j + 1)..Len(line) : At(line, n) = " "
                THEN Len(line) + 1
                ELSE CHOOSE k \in (j + 1)..Len(line) :
                       At(line, k) # " " /\ \A n \in (j + 1)..(k - 1) : At(line, n) = " "
       IN  IF k = j + 1 \/ k > Len(line)
              \/ \E n \in k..Len(line) : At(line, n) \notin WidgetChars
           THEN <<>>
           ELSE <<line, SubSeq(line, 2, j - 1), SubSeq(line, k, Len(line))>>

skipWidgets ==
  {"self-insert", "self-insert-unmeta", "undefined-key", "digit-argument",
   "neg-argument", "universal-argument", "bracketed-paste",
   "bracketed-paste-magic", "beep", "noop"}

shouldSkipWidget(widgetName) ==
  \/ widgetName \in skipWidgets
  \/ HasPrefix(widgetName, "_")
  \/ HasPrefix(widgetName, "vi-")

\* the body of the loop over the lines: the entries one line adds
EntriesOfLine(rawLine) ==
  LET line == TrimSpace(dropCR(rawLine))
      matches == bindkeyRegex(line)
  IN  IF line = "" \/ rangeRegex(line) \/ Len(matches) # 3 THEN <<>>
      ELSE IF shouldSkipWidget(matches[3]) THEN <<>>
      ELSE << [EscapeSequence |-> matches[2],
               WidgetName |-> matches[3],
               DisplayName |-> normalizeEscapeSequence(matches[2])] >>

RECURSIVE ScanLoop(_, _)
ScanLoop(lines, i) ==
  IF i > Len(lines) THEN <<>>
  ELSE EntriesOfLine(lines[i]) \o ScanLoop(lines, i + 1)

\* parseBindkeyOutput on a text that is not empty: its two results
parseTable(text) ==
  IF TooLong(text) THEN [entries |-> <<>>, err |-> ErrTooLong]
  ELSE [entries |-> ScanLoop(RawLines(text), 1), err |-> ""]

\* the loop of filterBindkeyEntries from entry i on, seen the names met so far
RECURSIVE filterLoop(_, _, _)
filterLoop(all, i, seen) ==
  IF i > Len(all) THEN <<>>
  ELSE LET name == all[i].DisplayName
       IN  IF name = "" THEN filterLoop(all, i + 1, seen)
           ELSE IF name \in seen THEN filterLoop(all, i + 1, seen)
           ELSE IF Len(name) = 1 /\ IsPrint(name) /\ name # "^"
           THEN filterLoop(all, i + 1, seen \cup {name})
           ELSE <<all[i]>> \o filterLoop(all, i + 1, seen \cup {name})

\* filterBindkeyEntries without the exception of the caret
filterBindkeyEntriesNoCaret(all) ==
  SelectSeq(filterLoop(all, 1, {}), LAMBDA entry : entry.DisplayName # "^")

filterBindkeyEntries(all) == filterLoop(all, 1, {})

\* filterBindkeyEntries applied by each of n pending getFilteredZshBindings
RECURSIVE filterTimes(_, _)
filterTimes(all, n) ==
  IF n = 0 THEN all ELSE filterTimes(filterBindkeyEntries(all), n - 1)

(***************************************************************************)
(* manpage.go: the descriptions of the widgets, taken from the text of     *)
(* man zshzle.                                                             *)
(***************************************************************************)
\* the length above which extractFirstSentence truncates a text
Budget == 100

\* the bytes extractFirstSentence keeps of a text it truncates
Keep == 97

\* the class \s of Go's regexp on the characters of the model
IsReSpace(c) == c \in {" ", "\t", "\n", "\r"}

\* the class [.!?] of sentenceEndRegex
IsSentenceEnd(c) == c \in {".", "!", "?"}

\* regexp.MustCompile(`\s+`).ReplaceAllString(text, " ") on the characters
\* lo..hi of text: a blank for the first character of a run of white space,
\* nothing for the others
RECURSIVE collapseRange(_, _, _)
collapseRange(text, lo, hi) ==
  IF lo > hi THEN ""
  ELSE IF lo = hi
    THEN IF ~IsReSpace(At(text, lo)) THEN At(text, lo)
         ELSE IF lo > 1 /\ IsReSpace(At(text, lo - 1)) THEN ""
         ELSE " "
  ELSE LET mid == (lo + hi) \div 2
       IN  collapseRange(text, lo, mid) \o collapseRange(text, mid + 1, hi)

collapseSpace(text) == collapseRange(text, 1, Len(text))

\* a match of ([.!?])(\s|$) begins at index i of text
sentenceEndAt(text, i) ==
  /\ IsSentenceEnd(At(text, i))
  /\ i = Len(text) \/ IsReSpace(At(text, i + 1))

\* the first [.!?] of text, whatever follows it
firstPunctuation(text) ==
  LET ends == {i \in 1..Len(text) : IsSentenceEnd(At(text, i))}
  IN  IF ends = {} THEN 0 ELSE CHOOSE i \in ends : \A j \in ends : i <= j

\* sentenceEndRegex.FindStringIndex(text): the index of the punctuation mark
\* of the leftmost match, 0 for nil
sentenceEndRegex(text) ==
  LET ends == {i \in 1..Len(text) : sentenceEndAt(text, i)}
  IN  IF ends = {} THEN 0 ELSE CHOOSE i \in ends : \A j \in ends : i <= j

\* the text before the punctuation mark of the match
firstSentenceBare(text, end) == TrimSpace(SubSeq(text, 1, end - 1))

\* strings.TrimSpace(text[:endIndex]) with endIndex = match[0] + 1
firstSentence(text, end) == TrimSpace(SubSeq(text, 1, end))

\* the branch taken when no sentence break is found
unterminated(text) ==
  IF Len(text) > Budget THEN SubSeq(text, 1, Keep) \o "..."
  ELSE IF text # "" /\ ~IsSentenceEnd(At(text, Len(text))) THEN text \o "."
  ELSE text

\* the text cleaned up: trimmed, runs of white space made one blank
cleanText(text) == collapseSpace(TrimSpace(text))

extractFirstSentence(text) ==
  IF text = "" THEN ""
  ELSE LET clean == cleanText(text)
           end == sentenceEndRegex(clean)
       IN  IF end # 0 THEN firstSentence(clean, end)
           ELSE unterminated(clean)

ErrManTooLong == "error reading man page content: bufio.Scanner: token too long"

\* strings.Contains(s, substr)
Contains(s, substr) ==
  \E i \in 0..(Len(s) - Len(substr)) : SubSeq(s, i + 1, i + Len(substr)) = substr

\* the characters of a widget name in a header: [a-zA-Z0-9_-]
HeaderNameChars ==
  UpperSet \cup LowerSet \cup
  {"0", "1", "2", "3", "4", "5", "6", "7", "8", "9", "_", "-"}

\* the index of the first character of s from index i on that is not white
\* space, Len(s) + 1 if there is none
SkipSpace(s, i) ==
  IF \A k \in i..Len(s) : IsReSpace(At(s, k)) THEN Len(s) + 1
  ELSE CHOOSE k \in i..Len(s) :
         ~IsReSpace(At(s, k)) /\ \A n \in i..(k - 1) : IsReSpace(At(s, n))

\* (\s*\([^)]*\))+\s*$ from index i of line on, groups of them matched so far
RECURSIVE keyGroups(_, _, _)
keyGroups(line, i, groups) ==
  LET open == SkipSpace(line, i)
  IN  IF open > Len(line) THEN groups > 0
      ELSE IF At(line, open) # "(" THEN FALSE
      ELSE IF \A k \in (open + 1)..Len(line) : At(line, k) # ")" THEN FALSE
      ELSE LET close == CHOOSE k \in (open + 1)..Len(line) :
                          /\ At(line, k) = ")"
                          /\ \A n \in (open + 1)..(k - 1) : At(line, n) # ")"
           IN  keyGroups(line, close + 1, groups + 1)

\* widgetHeaderRegex.FindStringSubmatch(line) for
\* ^\s+([a-zA-Z0-9_-]+)(\s*\([^)]*\))+\s*$ : the widget name, "" when the line
\* does not match
widgetHeaderRegex(line) ==
  LET first == SkipSpace(line, 1)
  IN  IF first = 1 \/ first > Len(line) THEN ""
      ELSE IF At(line, first) \notin HeaderNameChars THEN ""
      ELSE LET last == CHOOSE k \in first..Len(line) :
                         /\ \A n \in first..k : At(line, n) \in HeaderNameChars
                         /\ k = Len(line) \/ At(line, k + 1) \notin HeaderNameChars
           IN  IF keyGroups(line, last + 1, 0) THEN SubSeq(line, first, last)
               ELSE ""

\* the headers of the sections of the manual
SectionHeaders ==
  {"ZSHZLE(1)", "NAME", "SYNOPSIS", "DESCRIPTION", "OPTIONS", "BUILTIN WIDGETS",
   "USER-DEFINED WIDGETS", "SPECIAL WIDGETS", "STANDARD WIDGETS", "Text Objects",
   "SEE ALSO", "AUTHOR"}

\* the words of the headers of the subsections
SubsectionWords ==
  {"Movement", "History", "Modifying", "Arguments", "Completion", "Miscellaneous"}

isNewSection(line) ==
  \/ \E header \in SectionHeaders : HasPrefix(line, header)
  \/ /\ HasPrefix(line, "   ")
     /\ \E word \in SubsectionWords : Contains(line, word)

Digits == {"0", "1", "2", "3", "4", "5", "6", "7", "8", "9"}

\* regexp.MatchString(`^[a-z][a-z0-9-]*[a-z0-9]$`, trimmed) on a line
\* indented by seven blanks
isAnotherWidget(line) ==
  LET trimmed == TrimSpace(line)
  IN  /\ HasPrefix(line, "       ")
      /\ Len(trimmed) > 0
      /\ Len(trimmed) >= 2
      /\ At(trimmed, 1) \in LowerSet
      /\ At(trimmed, Len(trimmed)) \in LowerSet \cup Digits
      /\ \A k \in 2..(Len(trimmed) - 1) :
           At(trimmed, k) \in LowerSet \cup Digits \cup {"-"}

isDescriptionLine(line) ==
  IF \/ HasPrefix(line, "ZSHZLE")
     \/ HasPrefix(line, "zsh:")
     \/ HasPrefix(line, "Page ")
     \/ Len(line) < 10
  THEN FALSE
  ELSE HasPrefix(line, " ") \/ HasPrefix(line, "\t")

\* joinDescriptionLines: the lines of a paragraph joined by a blank, the
\* paragraphs by an empty line.  result and currentParagraph are the two
\* builders.
RECURSIVE joinLoop(_, _, _, _)
joinLoop(lines, i, result, currentParagraph) ==
  IF i > Len(lines)
    THEN TrimSpace(IF Len(currentParagraph) > 0
                   THEN result \o TrimSpace(currentParagraph) ELSE result)
  ELSE IF lines[i] = ""
    THEN IF Len(currentParagraph) > 0
         THEN joinLoop(lines, i + 1, result \o TrimSpace(currentParagraph) \o "\n\n", "")
         ELSE joinLoop(lines, i + 1, result, currentParagraph)
  ELSE joinLoop(lines, i + 1, result,
                IF Len(currentParagraph) > 0 THEN currentParagraph \o " " \o lines[i]
                ELSE lines[i])

joinDescriptionLines(lines) == joinLoop(lines, 1, "", "")

\* a map with the value put at the key
MapPut(map, key, value) ==
  [k \in DOMAIN map \cup {key} |-> IF k = key THEN value ELSE map[k]]

\* the map after the widget in progress is saved: an entry is made when
\* there are description lines and the short description is not empty
saveWidget(descs, currentWidget, descriptionLines) ==
  IF currentWidget # "" /\ Len(descriptionLines) > 0
  THEN LET full == joinDescriptionLines(descriptionLines)
           short == extractFirstSentence(full)
       IN  IF short # ""
           THEN MapPut(descs, currentWidget,
                       [WidgetName |-> currentWidget, ShortDescription |-> short,
                        FullDescription |-> TrimSpace(full)])
           ELSE descs
  ELSE descs

\* the state of the loop of ParseManPageDescriptions
ScanState(descs, widget, lines, has) ==
  [descriptions |-> descs, currentWidget |-> widget, descriptionLines |-> lines,
   hasContent |-> has]

\* a new widget header: the widget in progress is saved and the new one begun
openWidget(st, name) ==
  ScanState(saveWidget(st.descriptions, st.currentWidget, st.descriptionLines),
            name, <<>>, FALSE)

\* a section or another widget closes the entry, and the widget stays current
closeKeepsWidget(st) ==
  ScanState(saveWidget(st.descriptions, st.currentWidget, st.descriptionLines),
            st.currentWidget, <<>>, FALSE)

\* a section or another widget closes the entry: it is saved and no widget
\* is current
closeWidget(st) ==
  ScanState(saveWidget(st.descriptions, st.currentWidget, st.descriptionLines),
            "", <<>>, FALSE)

\* the body of the loop for one line
scanLine(st, line) ==
  LET trimmedLine == TrimSpace(line)
      name == widgetHeaderRegex(line)
  IN  IF name # "" THEN openWidget(st, name)
      ELSE IF st.currentWidget = "" THEN st
      ELSE IF trimmedLine = ""
        THEN IF st.hasContent
             THEN [st EXCEPT !.descriptionLines = Append(@, ""), !.hasContent = FALSE]
             ELSE st
      ELSE IF isNewSection(line) \/ isAnotherWidget(line) THEN closeWidget(st)
      ELSE IF isDescriptionLine(line)
        THEN [st EXCEPT !.descriptionLines = Append(@, trimmedLine),
                        !.hasContent = TRUE]
      ELSE st

RECURSIVE scanLines(_, _, _)
scanLines(lines, i, st) ==
  IF i > Len(lines) THEN st
  ELSE scanLines(lines, i + 1, scanLine(st, lines[i]))

\* ParseManPageDescriptions(content) on the text manText: the map and the error; nil is <<>>
ParseManPageDescriptions(manText) ==
  IF TooLong(manText) THEN [descriptions |-> <<>>, err |-> ErrManTooLong]
  ELSE LET st == scanLines(RawLines(manText), 1, ScanState(<<>>, "", <<>>, FALSE))
       IN  [descriptions |->
              saveWidget(st.descriptions, st.currentWidget, st.descriptionLines),
            err |-> ""]

getWidgetDescriptionOrEmpty(widgetName, descs) ==
  IF widgetName \in DOMAIN descs THEN descs[widgetName].ShortDescription ELSE ""

getWidgetDescription(widgetName, descs) ==
  IF widgetName \in DOMAIN descs THEN descs[widgetName].ShortDescription
  ELSE widgetName

getWidgetFullDescription(widgetName, descs) ==
  IF widgetName \in DOMAIN descs THEN descs[widgetName].FullDescription
  ELSE widgetName

(***************************************************************************)
(* The order of Go's strings, byte by byte, on the printable characters.   *)
(***************************************************************************)
\* the printable characters in the order of their bytes
ByteOrder ==
  " !\"#$%&'()*+,-./0123456789:;<=>?@ABCDEFGHIJKLMNOPQRSTUVWXYZ[\\]^_"
  \o "abcdefghijklmnopqrstuvwxyz{|}~"

ByteRank ==
  [c \in {At(ByteOrder, i) : i \in 1..Len(ByteOrder)} |->
     CHOOSE i \in 1..Len(ByteOrder) : At(ByteOrder, i) = c] @@ <<>>

\* a < b on strings
StringLess(a, b) ==
  LET n == IF Len(a) < Len(b) THEN Len(a) ELSE Len(b)
      differ == {i \in 1..n : At(a, i) # At(b, i)}
  IN  IF differ = {} THEN Len(a) < Len(b)
      ELSE LET i == CHOOSE i \in differ : \A j \in differ : i <= j
           IN  ByteRank[At(a, i)] < ByteRank[At(b, i)]

\* the list with the shortcut put before the first one of a greater Display
RECURSIVE insertByDisplay(_, _)
insertByDisplay(sorted, shortcut) ==
  IF sorted = <<>> THEN <<shortcut>>
  ELSE IF StringLess(shortcut.Display, Head(sorted).Display)
    THEN <<shortcut>> \o sorted
  ELSE <<Head(sorted)>> \o insertByDisplay(Tail(sorted), shortcut)

\* the shortcuts sorted by Display, those of one Display in their order
RECURSIVE sortByDisplay(_)
sortByDisplay(list) ==
  IF list = <<>> THEN <<>>
  ELSE insertByDisplay(sortByDisplay(SubSeq(list, 1, Len(list) - 1)), list[Len(list)])

(***************************************************************************)
(* The assembler of the catalog, convertBindkeyToShortcuts of              *)
(* TestConvertBindkeyToShortcuts: one shortcut for each entry of the       *)
(* binding table, described by the manual, the result sorted by label.     *)
(***************************************************************************)
convertBindkeyToShortcuts(bindkeyEntries, manDescriptions) ==
  sortByDisplay(
    [i \in 1..Len(bindkeyEntries) |->
       [Display |-> bindkeyEntries[i].DisplayName,
        Description |->
          getWidgetDescription(bindkeyEntries[i].WidgetName, manDescriptions),
        FullDescription |->
          getWidgetFullDescription(bindkeyEntries[i].WidgetName, manDescriptions),
        Type |-> "widget",
        Target |-> bindkeyEntries[i].WidgetName,
        IsCustom |-> FALSE]])

(***************************************************************************)
(* cache.go: the snapshot of the binding table and of the descriptions     *)
(* kept in one file.  The file holds a text; a text that is a JSON document *)
(* is modelled by the document, a tree of values of four kinds, and a text *)
(* that is none by itself.  A time.Time is a record of its wall clock time *)
(* and of whether it carries a monotonic clock reading.                    *)
(***************************************************************************)
\* JSON values: null, a string, an array and an object
JsonNull == [kind |-> "null", str |-> "", items |-> <<>>, fields |-> <<>>]

JsonString(s) == [kind |-> "string", str |-> s, items |-> <<>>, fields |-> <<>>]

JsonArray(values) == [kind |-> "array", str |-> "", items |-> values, fields |-> <<>>]

JsonObject(members) == [kind |-> "object", str |-> "", items |-> <<>>, fields |-> members]

\* the zero time.Time, and the text json.Marshal writes for it
ZeroTime == [wall |-> "0001-01-01T00:00:00Z", monotonic |-> FALSE]

\* the zero CacheData
ZeroCacheData ==
  [BindkeyEntries |-> <<>>, ManDescriptions |-> <<>>, CacheVersion |-> "",
   Timestamp |-> ZeroTime, ZshBinaryHash |-> "", ZshrcHash |-> ""]

\* json.Marshal of a struct of string fields: an object of one string each
marshalStrings(record) ==
  JsonObject([name \in DOMAIN record |-> JsonString(record[name])])

\* json.MarshalIndent(cacheData, "", "  "): a nil slice and a nil map are
\* written as null, the time in RFC 3339 without its monotonic clock reading
marshalCacheData(cacheData) ==
  JsonObject(
    [bindkey_entries |->
       IF cacheData.BindkeyEntries = <<>> THEN JsonNull
       ELSE JsonArray([i \in 1..Len(cacheData.BindkeyEntries) |->
                         marshalStrings(cacheData.BindkeyEntries[i])]),
     man_descriptions |->
       IF cacheData.ManDescriptions = <<>> THEN JsonNull
       ELSE JsonObject([name \in DOMAIN cacheData.ManDescriptions |->
                          marshalStrings(cacheData.ManDescriptions[name])]),
     cache_version |-> JsonString(cacheData.CacheVersion),
     timestamp |-> JsonString(cacheData.Timestamp.wall),
     zsh_binary_hash |-> JsonString(cacheData.ZshBinaryHash),
     zshrc_hash |-> JsonString(cacheData.ZshrcHash)])

\* json.Unmarshal into a string: null leaves it, another kind is an error
stringFits(value) == value.kind \in {"null", "string"}

unmarshalString(value, zero) == IF value.kind = "string" THEN value.str ELSE zero

\* json.Unmarshal into a struct of the string fields names: an object whose
\* members of these names are strings or null fits, and so does null
stringsFit(value, names) ==
  \/ value.kind = "null"
  \/ /\ value.kind = "object"
     /\ \A name \in names \cap DOMAIN value.fields : stringFits(value.fields[name])

unmarshalStrings(value, names) ==
  [name \in names |->
     IF value.kind = "object" /\ name \in DOMAIN value.fields
     THEN unmarshalString(value.fields[name], "") ELSE ""]

EntryFields == {"EscapeSequence", "WidgetName", "DisplayName"}

DescriptionFields == {"WidgetName", "ShortDescription", "FullDescription"}

\* the texts time.Time reads: RFC 3339
IsRFC3339(s) ==
  /\ Len(s) = 20
  /\ \A i \in {5, 8} : At(s, i) = "-"
  /\ \A i \in {14, 17} : At(s, i) = ":"
  /\ At(s, 11) = "T" /\ At(s, 20) = "Z"
  /\ \A i \in (1..19) \ {5, 8, 11, 14, 17} :
       At(s, i) \in {"0", "1", "2", "3", "4", "5", "6", "7", "8", "9"}

\* the member of an object, null when the object has none of the name
Member(value, name) ==
  IF name \in DOMAIN value.fields THEN value.fields[name] ELSE JsonNull

\* json.Unmarshal(data, &cacheData) for a document: whether every member
\* fits the field of its name
documentFits(doc) ==
  \/ doc.kind = "null"
  \/ /\ doc.kind = "object"
     /\ LET bindings == Member(doc, "bindkey_entries")
            descs == Member(doc, "man_descriptions")
            stamp == Member(doc, "timestamp")
        IN  /\ \/ bindings.kind = "null"
               \/ /\ bindings.kind = "array"
                  /\ \A i \in 1..Len(bindings.items) :
                       stringsFit(bindings.items[i], EntryFields)
            /\ \/ descs.kind = "null"
               \/ /\ descs.kind = "object"
                  /\ \A name \in DOMAIN descs.fields :
                       stringsFit(descs.fields[name], DescriptionFields)
            /\ stringFits(Member(doc, "cache_version"))
            /\ stamp.kind = "null" \/ (stamp.kind = "string" /\ IsRFC3339(stamp.str))
            /\ stringFits(Member(doc, "zsh_binary_hash"))
            /\ stringFits(Member(doc, "zshrc_hash"))

\* the CacheData a document that fits is decoded to; a member that is
\* missing or null leaves the zero value
unmarshalCacheData(doc) ==
  IF doc.kind = "null" THEN ZeroCacheData
  ELSE LET bindings == Member(doc, "bindkey_entries")
           descs == Member(doc, "man_descriptions")
           stamp == Member(doc, "timestamp")
       IN  [BindkeyEntries |->
              [i \in 1..Len(bindings.items) |->
                 unmarshalStrings(bindings.items[i], EntryFields)],
            ManDescriptions |->
              [name \in DOMAIN descs.fields |->
                 unmarshalStrings(descs.fields[name], DescriptionFields)],
            CacheVersion |-> unmarshalString(Member(doc, "cache_version"), ""),
            Timestamp |-> IF stamp.kind = "string"
                          THEN [wall |-> stamp.str, monotonic |-> FALSE]
                          ELSE ZeroTime,
            ZshBinaryHash |-> unmarshalString(Member(doc, "zsh_binary_hash"), ""),
            ZshrcHash |-> unmarshalString(Member(doc, "zshrc_hash"), "")]

\* the file: none, one that cannot be opened, a text that is no JSON
\* document, and a JSON document
NoFile == [found |-> FALSE, opens |-> FALSE, json |-> FALSE, text |-> "", doc |-> JsonNull]

LockedFile == [NoFile EXCEPT !.found = TRUE]

TextFile(data) == [NoFile EXCEPT !.found = TRUE, !.opens = TRUE, !.text = data]

JsonFile(document) ==
  [NoFile EXCEPT !.found = TRUE, !.opens = TRUE, !.json = TRUE, !.doc = document]

ErrReadCache == "failed to read cache file"

ErrParseCache == "failed to parse cache data"

ErrWriteCache == "failed to write cache file"

ErrRemoveCache == "failed to remove cache file"

\* LoadCache on a file that does not decode returns an empty CacheData
loadCacheLenient(file) ==
  IF ~file.found THEN [data |-> <<>>, err |-> ""]
  ELSE IF ~file.opens THEN [data |-> <<>>, err |-> ErrReadCache]
  ELSE IF ~file.json \/ ~documentFits(file.doc)
    THEN [data |-> <<ZeroCacheData>>, err |-> ""]
  ELSE [data |-> <<unmarshalCacheData(file.doc)>>, err |-> ""]

\* LoadCache: the pointer it returns, <<>> for nil, and the error
loadCache(file) ==
  IF ~file.found THEN [data |-> <<>>, err |-> ""]
  ELSE IF ~file.opens THEN [data |-> <<>>, err |-> ErrReadCache]
  ELSE IF ~file.json \/ ~documentFits(file.doc)
    THEN [data |-> <<>>, err |-> ErrParseCache]
  ELSE [data |-> <<unmarshalCacheData(file.doc)>>, err |-> ""]

\* SaveCache leaves a file that exists as it is
saveCacheOnce(file, entryList, descs, now) ==
  IF file.found THEN [file |-> file, err |-> ""]
  ELSE [file |-> JsonFile(marshalCacheData(
                   [BindkeyEntries |-> entryList, ManDescriptions |-> descs,
                    CacheVersion |-> "1.0", Timestamp |-> now,
                    ZshBinaryHash |-> "", ZshrcHash |-> ""])),
        err |-> ""]

\* SaveCache: the file after it and the error
saveCache(file, entryList, descs, now) ==
  IF file.found /\ ~file.opens THEN [file |-> file, err |-> ErrWriteCache]
  ELSE [file |-> JsonFile(marshalCacheData(
                   [BindkeyEntries |-> entryList, ManDescriptions |-> descs,
                    CacheVersion |-> "1.0", Timestamp |-> now,
                    ZshBinaryHash |-> "", ZshrcHash |-> ""])),
        err |-> ""]

\* ClearCache: the file after it and the error
clearCache(file) ==
  IF file.found /\ ~file.opens THEN [file |-> file, err |-> ErrRemoveCache]
  ELSE [file |-> NoFile, err |-> ""]
(***************************************************************************)
(* internal/shortcuts.go: the labels of the keys of the configuration and  *)
(* the merge of the configuration onto the catalog.  A Shortcut is the     *)
(* record convertBindkeyToShortcuts makes.                                 *)
(***************************************************************************)
\* the class [A-Za-z@_\[\]\\] of the first two patterns of normalizeKey
ControlKeyChars == UpperSet \cup LowerSet \cup {"@", "_", "[", "]", "\\"}

\* ^\^[A-Za-z@_\[\]\\]$
caretRegex(key) ==
  Len(key) = 2 /\ At(key, 1) = "^" /\ At(key, 2) \in ControlKeyChars

\* ^[Cc]-[a-zA-Z@_\[\]\\]$
ctrlDashRegex(key) ==
  /\ Len(key) = 3
  /\ At(key, 1) \in {"C", "c"}
  /\ At(key, 2) = "-"
  /\ At(key, 3) \in ControlKeyChars

\* ^[Mm]-[a-zA-Z]$
metaDashRegex(key) ==
  /\ Len(key) = 3
  /\ At(key, 1) \in {"M", "m"}
  /\ At(key, 2) = "-"
  /\ At(key, 3) \in UpperSet \cup LowerSet

\* the switch on the character after the caret
caretLabel(char) ==
  CASE char = "[" -> "Esc"
    [] char = "I" -> "Tab"
    [] char = "M" -> "Enter"
    [] char = "H" -> "Backspace"
    [] OTHER -> "Ctrl+" \o char

\* s matches the word under (?i)
matchesFold(s, word) ==
  Len(s) = Len(word) /\ \A i \in 1..Len(s) : equalFold(At(s, i), At(word, i))

\* regexp.MustCompile(`(?i)word`).ReplaceAllString(s, repl) for a literal word
RECURSIVE replaceAllFold(_, _, _)
replaceAllFold(s, word, repl) ==
  LET n == Len(word)
      found == {i \in 1..(Len(s) - n + 1) : matchesFold(SubSeq(s, i, i + n - 1), word)}
  IN  IF found = {} THEN s
      ELSE LET i == CHOOSE i \in found : \A j \in found : i <= j
           IN  SubSeq(s, 1, i - 1) \o repl \o replaceAllFold(From(s, i + n - 1), word, repl)

\* strings.Join(parts, "+")
RECURSIVE joinPlus(_)
joinPlus(parts) ==
  IF Len(parts) = 0 THEN ""
  ELSE IF Len(parts) = 1 THEN parts[1]
  ELSE parts[1] \o "+" \o joinPlus(Tail(parts))

\* the last part as normalizeKey leaves it: a lowercase letter in capitals,
\* any spelling of tab as Tab
lastPartLabel(lastPart) ==
  IF Len(lastPart) = 1 /\ lastPart \in LowerSet THEN ToUpper(lastPart)
  ELSE IF matchesFold(lastPart, "tab") THEN "Tab"
  ELSE lastPart

\* the key with its modifiers and its last part as normalizeKey spells them
normalizeModifiers(key) ==
  LET modifiers == replaceAllFold(replaceAllFold(replaceAllFold(replaceAllFold(
                     key, "ctrl+", "Ctrl+"), "alt+", "Alt+"), "shift+", "Shift+"),
                     "meta+", "Alt+")
      parts == Split(modifiers, "+")
  IN  IF Len(parts) > 1
      THEN joinPlus(SubSeq(parts, 1, Len(parts) - 1)
                    \o <<lastPartLabel(parts[Len(parts)])>>)
      ELSE modifiers

normalizeKey(name) ==
  LET key == TrimSpace(name)
  IN  IF caretRegex(key) THEN caretLabel(ToUpper(At(key, 2)))
      ELSE IF ctrlDashRegex(key) THEN "Ctrl+" \o ToUpper(At(key, 3))
      ELSE IF metaDashRegex(key) THEN "Alt+" \o ToUpper(At(key, 3))
      ELSE normalizeModifiers(key)

\* the values of config.Shortcuts: a bool, a string, a table of values, each
\* as the interface{} the decoder of the configuration makes
ConfigBool(flag) == [kind |-> "bool", flag |-> flag, str |-> "", fields |-> <<>>]

ConfigString(str) == [kind |-> "string", flag |-> FALSE, str |-> str, fields |-> <<>>]

ConfigObject(fields) == [kind |-> "object", flag |-> FALSE, str |-> "", fields |-> fields]

\* v[name].(string): the string and ok
stringField(v, name) ==
  IF name \in DOMAIN v.fields /\ v.fields[name].kind = "string"
  THEN [str |-> v.fields[name].str, ok |-> TRUE]
  ELSE [str |-> "", ok |-> FALSE]

\* the loop that indexes the built-ins by the label of their Display
RECURSIVE indexBuiltins(_, _)
indexBuiltins(shortcutMap, builtins) ==
  IF builtins = <<>> THEN shortcutMap
  ELSE indexBuiltins(MapPut(shortcutMap, normalizeKey(Head(builtins).Display),
                            Head(builtins)),
                     Tail(builtins))

\* delete(shortcutMap, key)
MapDelete(map, key) == [k \in DOMAIN map \ {key} |-> map[k]]

\* case string, that overrides only a shortcut that exists
stringOverrideExisting(shortcutMap, normalizedKey, v) ==
  IF v # "" /\ normalizedKey \in DOMAIN shortcutMap
  THEN MapPut(shortcutMap, normalizedKey,
              [shortcutMap[normalizedKey] EXCEPT !.Description = v, !.IsCustom = TRUE])
  ELSE shortcutMap

\* case string
stringOverride(shortcutMap, normalizedKey, v) ==
  IF v = "" THEN shortcutMap
  ELSE IF normalizedKey \in DOMAIN shortcutMap
    THEN MapPut(shortcutMap, normalizedKey,
                [shortcutMap[normalizedKey] EXCEPT !.Description = v, !.IsCustom = TRUE])
  ELSE MapPut(shortcutMap, normalizedKey,
              [Display |-> normalizedKey, Description |-> v, FullDescription |-> "",
               Type |-> "command", Target |-> v, IsCustom |-> TRUE])

\* case map[string]interface{}, that never starts from the shortcut of the map
objectOverrideBlank(shortcutMap, normalizedKey, v) ==
  LET display == stringField(v, "display")
      description == stringField(v, "description")
      shortcutType == stringField(v, "type")
      target == stringField(v, "target")
  IN  MapPut(shortcutMap, normalizedKey,
             [Display |-> IF display.ok THEN display.str ELSE normalizedKey,
              Description |-> description.str,
              FullDescription |-> "",
              Type |-> shortcutType.str,
              Target |-> target.str,
              IsCustom |-> TRUE])

\* case map[string]interface{}
objectOverride(shortcutMap, normalizedKey, v) ==
  LET start == IF normalizedKey \in DOMAIN shortcutMap
               THEN [shortcutMap[normalizedKey] EXCEPT !.IsCustom = TRUE]
               ELSE [Display |-> normalizedKey, Description |-> "",
                     FullDescription |-> "", Type |-> "", Target |-> "",
                     IsCustom |-> TRUE]
      display == stringField(v, "display")
      description == stringField(v, "description")
      shortcutType == stringField(v, "type")
      target == stringField(v, "target")
  IN  MapPut(shortcutMap, normalizedKey,
             [start EXCEPT
                !.Display = IF display.ok THEN display.str ELSE @,
                !.Description = IF description.ok THEN description.str ELSE @,
                !.Type = IF shortcutType.ok THEN shortcutType.str ELSE @,
                !.Target = IF target.ok THEN target.str ELSE @])

\* the body of the loop over config.Shortcuts: the switch on the value
applyRule(shortcutMap, configKey, configValue) ==
  LET normalizedKey == normalizeKey(configKey)
  IN  CASE configValue.kind = "bool" ->
             IF ~configValue.flag THEN MapDelete(shortcutMap, normalizedKey)
             ELSE shortcutMap
        [] configValue.kind = "string" ->
             stringOverride(shortcutMap, normalizedKey, configValue.str)
        [] configValue.kind = "object" ->
             objectOverride(shortcutMap, normalizedKey, configValue)
        [] OTHER -> shortcutMap

\* the loop over config.Shortcuts, its keys visited in the order given
RECURSIVE applyRules(_, _, _)
applyRules(shortcutMap, config, order) ==
  IF order = <<>> THEN shortcutMap
  ELSE applyRules(applyRule(shortcutMap, Head(order), config[Head(order)]),
                  config, Tail(order))

\* the orders in which a range statement can visit the keys of a map
RangeOrders(map) ==
  LET n == Cardinality(DOMAIN map)
  IN  {order \in [1..n -> DOMAIN map] : \A i, j \in 1..n : i # j => order[i] # order[j]}

\* the slices sort.Slice can leave of the values of the map appended in any
\* order: sorted by Display, shortcuts of one Display in any order
RECURSIVE sortedResults(_)
sortedResults(shortcutMap) ==
  IF DOMAIN shortcutMap = {} THEN {<<>>}
  ELSE LET least == {key \in DOMAIN shortcutMap :
                       \A other \in DOMAIN shortcutMap :
                         ~StringLess(shortcutMap[other].Display, shortcutMap[key].Display)}
       IN  UNION {{<<shortcutMap[key]>> \o rest :
                     rest \in sortedResults(MapDelete(shortcutMap, key))} : key \in least}

\* the map of mergeShortcuts after its two loops
mergedMap(builtins, config, order) ==
  applyRules(indexBuiltins(<<>>, builtins), config, order)

\* the slices mergeShortcuts(builtins, config) can return when the keys of
\* config.Shortcuts are visited in the order given
mergeShortcuts(builtins, config, order) ==
  sortedResults(mergedMap(builtins, config, order))

SearchManText ==
  "Search backward incrementally for a specified string. The search is case-insensitive if the search string does not have uppercase letters and no numeric argument was given. The string may begin with ^ to anchor the search."

TestShortcuts == <<
  [Display |-> "Ctrl+A", Description |-> "Beginning of line",
   FullDescription |-> "",
   Type |-> "widget", Target |-> "beginning-of-line", IsCustom |-> FALSE],
  [Display |-> "Ctrl+E", Description |-> "End of line",
   FullDescription |-> "",
   Type |-> "widget", Target |-> "end-of-line", IsCustom |-> FALSE],
  [Display |-> "Alt+F", Description |-> "Forward word",
   FullDescription |-> "",
   Type |-> "widget", Target |-> "forward-word", IsCustom |-> FALSE]>>

ZshShortcuts == <<
  [Display |-> "Ctrl+@", Description |-> "Set Mark",
   FullDescription |-> "Set the mark at the cursor position.",
   Type |-> "widget", Target |-> "set-mark-command", IsCustom |-> FALSE],
  [Display |-> "Ctrl+A", Description |-> "Beginning of line",
   FullDescription |-> "Move to the beginning of the line.",
   Type |-> "widget", Target |-> "beginning-of-line", IsCustom |-> FALSE],
  [Display |-> "Ctrl+B", Description |-> "Back one character",
   FullDescription |-> "Move backward one character.",
   Type |-> "widget", Target |-> "backward-char", IsCustom |-> FALSE],
  [Display |-> "Ctrl+D", Description |-> "Delete character or list",
   FullDescription |-> "Delete the character under the cursor, or list possible completions.",
   Type |-> "widget", Target |-> "delete-char-or-list", IsCustom |-> FALSE],
  [Display |-> "Ctrl+E", Description |-> "End of line",
   FullDescription |-> "Move to the end of the line.",
   Type |-> "widget", Target |-> "end-of-line", IsCustom |-> FALSE],
  [Display |-> "Ctrl+F", Description |-> "Forward one character",
   FullDescription |-> "Move forward one character.",
   Type |-> "widget", Target |-> "forward-char", IsCustom |-> FALSE],
  [Display |-> "Ctrl+G", Description |-> "Send break",
   FullDescription |-> "Abort the current editor function.",
   Type |-> "widget", Target |-> "send-break", IsCustom |-> FALSE],
  [Display |-> "Ctrl+H", Description |-> "Delete character backward",
   FullDescription |-> "Delete the character behind the cursor.",
   Type |-> "widget", Target |-> "backward-delete-char", IsCustom |-> FALSE],
  [Display |-> "Ctrl+I", Description |-> "Expand or complete prefix",
   FullDescription |-> "Attempt shell expansion on the current word. If that fails, attempt completion.",
   Type |-> "widget", Target |-> "expand-or-complete-prefix", IsCustom |-> FALSE],
  [Display |-> "Ctrl+J", Description |-> "Accept line",
   FullDescription |-> "Finish editing the buffer. Normally, this will accept the line and execute it.",
   Type |-> "widget", Target |-> "accept-line", IsCustom |-> FALSE],
  [Display |-> "Ctrl+X r", Description |-> "History incremental search backward",
   FullDescription |-> SearchManText,
   Type |-> "widget", Target |-> "history-incremental-search-backward", IsCustom |-> FALSE]>>

Catalogs == {TestShortcuts, ZshShortcuts}

(***************************************************************************)
(* Bounds of the model and the inputs the event loop is fed.               *)
(***************************************************************************)
\* longest query typed
MaxQuery == 2

\* terminal sizes delivered by tea.WindowSizeMsg, as <<Width, Height>>
Sizes == {<<80, 24>>, <<40, 8>>}

\* rows a mouse press can land on: with Height 24 the list rows are 12..21, with
\* Height 8 the rows 0..5 are the list rows 4..9
MouseRows == {3, 13, 21}

\* tea.KeyMsg.Runes of the key messages that reach Update's default case: typed
\* characters, two characters read in one message, a non-ASCII character, and
\* a key without runes
RuneInputs == {<<"c">>, <<"k">>, <<"j">>, <<"c", "k">>, <<"U+00E9">>, <<>>}

NoMsg == [type |-> "none", key |-> "", Runes |-> <<>>, Y |-> 0, Width |-> 0, Height |-> 0]

KeyMsg(k, runes) == [NoMsg EXCEPT !.type = "KeyMsg", !.key = k, !.Runes = runes]

MouseMsg(t, y) == [NoMsg EXCEPT !.type = "MouseMsg", !.key = t, !.Y = y]

WindowSizeMsg(w, h) == [NoMsg EXCEPT !.type = "WindowSizeMsg", !.Width = w, !.Height = h]

(***************************************************************************)
(* The model struct.  selected is <<>> for a nil pointer and <<s>> for a   *)
(* pointer to shortcut s; cursor and the offsets are 0-based as in Go.     *)
(* msg is the message the last call of Update handled and before the       *)
(* <<cursor, scrollOffset>> that call started from.                        *)
(***************************************************************************)
VARIABLES shortcuts, filtered, cursor, query, width, height, selected,
          selectedKey, quitting, scrollOffset, maxVisible,
          expandedMode, expandedScrollOffset, expandedText, msg, before

\* The functions of the package called outside the picker.  seq is the
\* sequence handed to normalizeEscapeSequence, displayName the label it
\* returned and calls the number of calls made.  output is the text handed to
\* parseBindkeyOutput, entries and err its two results, pc where the call
\* stands ("idle", "exec" while zsh runs, "done"), frames the number of calls
\* of getFilteredZshBindings it made and shellOutput what zsh printed last.
VARIABLES seq, displayName, calls, output, shellOutput, entries, err, pc, frames

normVars == <<seq, displayName, calls>>

parserVars == <<output, shellOutput, entries, err, pc, frames>>

\* fullDescription is the text handed to extractFirstSentence, shortDescription what it
\* returned and extractCalls the number of calls made.
VARIABLES fullDescription, shortDescription, extractCalls

extractVars == <<fullDescription, shortDescription, extractCalls>>

\* content is the text handed to ParseManPageDescriptions, descriptions and
\* manErr its two results and manCalls the number of calls made.
VARIABLES content, descriptions, manErr, manCalls

manVars == <<content, descriptions, manErr, manCalls>>

\* bindkeyEntries and manDescriptions are the binding table and the
\* descriptions handed to convertBindkeyToShortcuts and to SaveCache,
\* converted the shortcuts made of them and convertCalls the number of calls
\* made.
VARIABLES bindkeyEntries, manDescriptions, converted, convertCalls

convertVars == <<bindkeyEntries, manDescriptions, converted, convertCalls>>

\* cacheFile is the file of the cache, cacheOp the method of CacheManager
\* called last and cacheErr the error it returned, cacheData the pointer the
\* last LoadCache returned (<<>> for nil), and saved the arguments of the
\* last SaveCache that succeeded with no ClearCache after it, <<>> when
\* there is none.
VARIABLES cacheFile, cacheOp, cacheData, cacheErr, saved

cacheVars == <<cacheFile, cacheOp, cacheData, cacheErr, saved>>

\* builtins and config are the arguments of mergeShortcuts, rangeOrder the
\* order in which its range statement visits the keys of config.Shortcuts,
\* shortcutMap its map when the loop is over, merged the slice it returns and
\* mergeCalls the number of calls made.
VARIABLES builtins, config, rangeOrder, shortcutMap, merged, mergeCalls

mergeVars == <<builtins, config, rangeOrder, shortcutMap, merged, mergeCalls>>

\* unfilteredEntries is the table handed to filterBindkeyEntries,
\* usefulEntries the table it returns and entryFilterCalls the number of
\* calls made.
VARIABLES unfilteredEntries, usefulEntries, entryFilterCalls

entryFilterVars == <<unfilteredEntries, usefulEntries, entryFilterCalls>>

\* the state of the functions of manpage.go, cache.go, shortcuts.go and of
\* filterBindkeyEntries
packageVars == <<extractVars, manVars, convertVars, cacheVars, mergeVars,
                 entryFilterVars>>

callVars == <<normVars, parserVars, packageVars>>

vars == <<shortcuts, filtered, cursor, query, width, height, selected,
          selectedKey, quitting, scrollOffset, maxVisible,
          expandedMode, expandedScrollOffset, expandedText, msg, before,
          callVars>>

\* no call of normalizeEscapeSequence made
NormIdle ==
  /\ seq = ""
  /\ displayName = ""
  /\ calls = 0

\* no call of parseBindkeyOutput made
ParserIdle ==
  /\ output = ""
  /\ shellOutput = ""
  /\ entries = <<>>
  /\ err = ""
  /\ pc = "idle"
  /\ frames = 0

\* no call of extractFirstSentence made
ExtractIdle ==
  /\ fullDescription = ""
  /\ shortDescription = ""
  /\ extractCalls = 0

\* no call of ParseManPageDescriptions made
ManIdle ==
  /\ content = ""
  /\ descriptions = <<>>
  /\ manErr = ""
  /\ manCalls = 0

\* no call of convertBindkeyToShortcuts made
ConvertIdle ==
  /\ bindkeyEntries = <<>>
  /\ manDescriptions = <<>>
  /\ converted = <<>>
  /\ convertCalls = 0

\* no method of CacheManager called, and no file
CacheIdle ==
  /\ cacheFile = NoFile
  /\ cacheOp = ""
  /\ cacheData = <<>>
  /\ cacheErr = ""
  /\ saved = <<>>

\* no call of mergeShortcuts made
MergeIdle ==
  /\ builtins = <<>>
  /\ config = <<>>
  /\ rangeOrder = <<>>
  /\ shortcutMap = <<>>
  /\ merged = <<>>
  /\ mergeCalls = 0

\* no call of filterBindkeyEntries made
EntryFilterIdle ==
  /\ unfilteredEntries = <<>>
  /\ usefulEntries = <<>>
  /\ entryFilterCalls = 0

PackageIdle ==
  /\ ExtractIdle
  /\ ManIdle
  /\ ConvertIdle
  /\ CacheIdle
  /\ MergeIdle
  /\ EntryFilterIdle

\* InitialModel; width, height, selected, selectedKey, quitting and
\* expandedText keep Go's zero values.
Init ==
  /\ shortcuts \in Catalogs
  /\ filtered = shortcuts
  /\ cursor = 0
  /\ query = ""
  /\ width = 0
  /\ height = 0
  /\ selected = <<>>
  /\ selectedKey = ""
  /\ quitting = FALSE
  /\ scrollOffset = 0
  /\ maxVisible = 10
  /\ expandedMode = FALSE
  /\ expandedScrollOffset = 0
  /\ expandedText = <<>>
  /\ msg = NoMsg
  /\ before = <<0, 0>>
  /\ NormIdle
  /\ ParserIdle
  /\ PackageIdle

(***************************************************************************)
(* Helpers of Update.                                                      *)
(***************************************************************************)
filterTargets(all) ==
  [i \in 1..Len(all) |-> all[i].Display \o " " \o all[i].Description]

\* the printable characters the model types, and the queries they can build
TypedChars ==
  UNION {{r[i] : i \in 1..Len(r)} : r \in RuneInputs} \cap PrintableASCII

RECURSIVE QueriesOfLen(_)
QueriesOfLen(n) ==
  IF n = 0 THEN {""}
  ELSE {q \o ch : q \in QueriesOfLen(n - 1), ch \in TypedChars}

Queries == UNION {QueriesOfLen(n) : n \in 1..MaxQuery}

\* the catalog of TestFilterShortcuts
FilterTestShortcuts == <<
  [Display |-> "Ctrl+A", Description |-> "Beginning of line",
   FullDescription |-> "",
   Type |-> "widget", Target |-> "beginning-of-line", IsCustom |-> FALSE],
  [Display |-> "Ctrl+E", Description |-> "End of line",
   FullDescription |-> "",
   Type |-> "widget", Target |-> "end-of-line", IsCustom |-> FALSE],
  [Display |-> "Alt+F", Description |-> "Forward word",
   FullDescription |-> "",
   Type |-> "widget", Target |-> "forward-word", IsCustom |-> FALSE],
  [Display |-> "Tab", Description |-> "Complete command",
   FullDescription |-> "",
   Type |-> "widget", Target |-> "expand-or-complete", IsCustom |-> FALSE] >>

\* the catalogs and the queries filterShortcuts is called with on its own:
\* every string of up to MaxQuery characters, among them both cases of a
\* letter, a separator, a space and a letter no entry has
FilterCatalogs == Catalogs \cup {FilterTestShortcuts}

FilterChars == {"c", "L", "+", " ", "w", "z"}

RECURSIVE FilterQueriesOfLen(_)
FilterQueriesOfLen(n) ==
  IF n = 0 THEN {""}
  ELSE {q \o ch : q \in FilterQueriesOfLen(n - 1), ch \in FilterChars}

FilterQueries == UNION {FilterQueriesOfLen(n) : n \in 0..MaxQuery}

\* fuzzy.Find on the targets of a catalog, tabulated once for the catalogs and
\* the queries of the model (@@ makes TLC store the table instead of the rule)
FindTable ==
  [all \in FilterCatalogs |->
     [q \in Queries \cup (FilterQueries \ {""}) |->
        Find(q, filterTargets(all))] @@ <<>>] @@ <<>>

filterShortcuts(all, q) ==
  IF q = "" THEN all
  ELSE LET matches == FindTable[all][q]
       IN  [i \in 1..Len(matches) |-> all[matches[i].Index]]

\* strings.Fields: the maximal runs of non-space characters, in order;
\* FieldsFrom gives the fields that start at index i or later
RECURSIVE FieldsFrom(_, _)
FieldsFrom(text, i) ==
  IF \A k \in i..Len(text) : IsSpace(At(text, k)) THEN <<>>
  ELSE LET b == CHOOSE b \in i..Len(text) :
                  ~IsSpace(At(text, b)) /\ \A k \in i..(b - 1) : IsSpace(At(text, k))
           e == CHOOSE e \in b..Len(text) :
                  /\ e = Len(text) \/ IsSpace(At(text, e + 1))
                  /\ \A k \in b..e : ~IsSpace(At(text, k))
       IN  <<SubSeq(text, b, e)>> \o FieldsFrom(text, e + 1)

Fields(text) == FieldsFrom(text, 1)

RECURSIVE wrapWords(_, _, _, _, _)
wrapWords(words, i, currentLine, lines, maxWidth) ==
  IF i > Len(words)
  THEN IF currentLine # "" THEN Append(lines, currentLine) ELSE lines
  ELSE LET word == words[i]
       IN  IF currentLine = ""
           THEN wrapWords(words, i + 1, word, lines, maxWidth)
           ELSE IF Len(currentLine) + 1 + Len(word) <= maxWidth
                THEN wrapWords(words, i + 1, currentLine \o " " \o word, lines, maxWidth)
                ELSE wrapWords(words, i + 1, word, Append(lines, currentLine), maxWidth)

wrapText(text, maxWidth) ==
  LET words == Fields(text)
  IN  IF Len(words) = 0 THEN <<text>> ELSE wrapWords(words, 1, "", <<>>, maxWidth)

NoDescription == "No description available"

\* the description prepareExpandedText wraps
fullDescOf(shortcut) ==
  IF shortcut.FullDescription # "" THEN shortcut.FullDescription
  ELSE IF shortcut.Description # "" THEN shortcut.Description
  ELSE NoDescription

\* the descriptions of the model's catalogs and the widths prepareExpandedText
\* wraps them at: width / 2 - 4, at least 20
Descriptions ==
  UNION {{fullDescOf(all[i]) : i \in 1..Len(all)} : all \in Catalogs}

WrapWidths == {Max(sz[1] \div 2 - 4, 20) : sz \in Sizes \cup {<<0, 0>>}}

\* wrapText on the descriptions, tabulated once
WrapTable ==
  [p \in Descriptions \X WrapWidths |-> wrapText(p[1], p[2])] @@ <<>>

\* prepareExpandedText: the lines it stores in m.expandedText
prepareExpandedText(flt, cur, w) ==
  IF Len(flt) = 0 \/ cur >= Len(flt)
  THEN <<NoDescription>>
  ELSE LET rightWidth == w \div 2
           maxWidth == Max(rightWidth - 4, 20)
       IN  WrapTable[<<fullDescOf(flt[cur + 1]), maxWidth>>]

getExpandedVisibleLines == maxVisible

\* renderSplitView: the width of the right column for a terminal w wide
rightColumnWidth(w) ==
  LET leftWidth == Max(w \div 5, 20)
      rightWidth == w - leftWidth
  IN  IF rightWidth < 30 THEN 30 ELSE rightWidth

\* the widths getExpandedDisplayLines wraps the descriptions at
DisplayWidths == {rightColumnWidth(sz[1]) - 4 : sz \in Sizes \cup {<<0, 0>>}}

\* wrapText on the descriptions at these widths, tabulated once
DisplayTable ==
  [p \in Descriptions \X DisplayWidths |-> wrapText(p[1], p[2])] @@ <<>>

\* getExpandedDisplayLines: wrappedLines, the lines of the detail pane before
\* the scroll offset is applied
wrappedDisplayLines(flt, cur, w) ==
  IF Len(flt) = 0 \/ cur >= Len(flt)
  THEN <<NoDescription>>
  ELSE DisplayTable[<<fullDescOf(flt[cur + 1]), rightColumnWidth(w) - 4>>]

\* updateExpandedMode: the new <<expandedText, expandedScrollOffset>>
updateExpandedMode(flt, cur) ==
  IF ~expandedMode
  THEN <<expandedText, expandedScrollOffset>>
  ELSE <<prepareExpandedText(flt, cur, width), 0>>

(***************************************************************************)
(* Update, one action per case of its type and key switches.  The event    *)
(* loop stops at tea.Quit, so no message is handled once quitting is set.  *)
(***************************************************************************)
Running == ~quitting

catalogVars == <<shortcuts, maxVisible>>

resultVars == <<selected, selectedKey, quitting>>

sizeVars == <<width, height>>

listVars == <<filtered, query>>

expandedVars == <<expandedMode, expandedScrollOffset, expandedText>>

\* case tea.WindowSizeMsg
WindowSize ==
  /\ Running
  /\ \E sz \in Sizes :
       /\ width' = sz[1]
       /\ height' = sz[2]
       /\ msg' = WindowSizeMsg(sz[1], sz[2])
       /\ before' = <<cursor, scrollOffset>>
  /\ UNCHANGED <<callVars, catalogVars, resultVars, listVars, expandedVars, cursor, scrollOffset>>

\* KeyQuit with a fault: in expanded mode escape only closes the description
KeyQuitCollapsesFirst ==
  /\ Running
  /\ \E k \in {"ctrl+c", "esc"} : msg' = KeyMsg(k, <<>>)
  /\ before' = <<cursor, scrollOffset>>
  /\ IF expandedMode
     THEN /\ expandedMode' = FALSE
          /\ expandedScrollOffset' = 0
          /\ expandedText' = <<>>
          /\ UNCHANGED quitting
     ELSE /\ quitting' = TRUE
          /\ UNCHANGED expandedVars
  /\ UNCHANGED <<callVars, catalogVars, sizeVars, listVars, cursor, scrollOffset,
                 selected, selectedKey>>

\* case "ctrl+c", "esc"
KeyQuit ==
  /\ Running
  /\ \E k \in {"ctrl+c", "esc"} : msg' = KeyMsg(k, <<>>)
  /\ before' = <<cursor, scrollOffset>>
  /\ quitting' = TRUE
  /\ UNCHANGED <<callVars, catalogVars, sizeVars, listVars, expandedVars, cursor, scrollOffset,
                 selected, selectedKey>>

\* KeyAccept with a fault: the loop ends on an empty list as well
KeyAcceptEndsLoop(k) ==
  /\ Running
  /\ msg' = KeyMsg(k, <<>>)
  /\ before' = <<cursor, scrollOffset>>
  /\ IF Len(filtered) > 0 /\ cursor < Len(filtered)
     THEN /\ selected' = <<filtered[cursor + 1]>>
          /\ selectedKey' = k
     ELSE UNCHANGED <<selected, selectedKey>>
  /\ quitting' = TRUE
  /\ UNCHANGED <<callVars, catalogVars, sizeVars, listVars, expandedVars, cursor, scrollOffset>>

\* case "enter" and case "tab": k is the key, stored as selectedKey
KeyAccept(k) ==
  /\ Running
  /\ msg' = KeyMsg(k, <<>>)
  /\ before' = <<cursor, scrollOffset>>
  /\ IF Len(filtered) > 0 /\ cursor < Len(filtered)
     THEN /\ selected' = <<filtered[cursor + 1]>>
          /\ selectedKey' = k
          /\ quitting' = TRUE
     ELSE UNCHANGED resultVars
  /\ UNCHANGED <<callVars, catalogVars, sizeVars, listVars, expandedVars, cursor, scrollOffset>>

KeyEnter == KeyAccept("enter")

KeyTab == KeyAccept("tab")

\* the body of case "up": what it does to cursor, scrollOffset and expandedText
caseUp ==
  IF cursor > 0
  THEN /\ cursor' = cursor - 1
       /\ scrollOffset' = IF cursor' - scrollOffset < 0
                          THEN scrollOffset - 1 ELSE scrollOffset
       /\ expandedText' = IF expandedMode
                          THEN prepareExpandedText(filtered, cursor', width)
                          ELSE expandedText
  ELSE UNCHANGED <<cursor, scrollOffset, expandedText>>

\* case "up"
KeyUp ==
  /\ Running
  /\ msg' = KeyMsg("up", <<>>)
  /\ before' = <<cursor, scrollOffset>>
  /\ caseUp
  /\ UNCHANGED <<callVars, catalogVars, resultVars, sizeVars, listVars,
                 expandedMode, expandedScrollOffset>>

\* caseDown with a fault: the bound is len(m.filtered) instead of len(m.filtered)-1
caseDownPastEnd ==
  IF cursor < Len(filtered)
  THEN /\ cursor' = cursor + 1
       /\ scrollOffset' = IF cursor' - scrollOffset > 9
                          THEN scrollOffset + 1 ELSE scrollOffset
       /\ expandedText' = IF expandedMode
                          THEN prepareExpandedText(filtered, cursor', width)
                          ELSE expandedText
  ELSE UNCHANGED <<cursor, scrollOffset, expandedText>>

\* the body of case "down"
caseDown ==
  IF cursor < Len(filtered) - 1
  THEN /\ cursor' = cursor + 1
       /\ scrollOffset' = IF cursor' - scrollOffset > 9
                          THEN scrollOffset + 1 ELSE scrollOffset
       /\ expandedText' = IF expandedMode
                          THEN prepareExpandedText(filtered, cursor', width)
                          ELSE expandedText
  ELSE UNCHANGED <<cursor, scrollOffset, expandedText>>

\* case "down"
KeyDown ==
  /\ Running
  /\ msg' = KeyMsg("down", <<>>)
  /\ before' = <<cursor, scrollOffset>>
  /\ caseDown
  /\ UNCHANGED <<callVars, catalogVars, resultVars, sizeVars, listVars,
                 expandedMode, expandedScrollOffset>>

\* KeyLeft with a fault: the scroll position of the description is kept
KeyLeftKeepsScroll ==
  /\ Running
  /\ msg' = KeyMsg("left", <<>>)
  /\ before' = <<cursor, scrollOffset>>
  /\ IF expandedMode
     THEN /\ expandedMode' = FALSE
          /\ expandedText' = <<>>
          /\ UNCHANGED expandedScrollOffset
     ELSE UNCHANGED expandedVars
  /\ UNCHANGED <<callVars, catalogVars, resultVars, sizeVars, listVars, cursor, scrollOffset>>

\* case "left"
KeyLeft ==
  /\ Running
  /\ msg' = KeyMsg("left", <<>>)
  /\ before' = <<cursor, scrollOffset>>
  /\ IF expandedMode
     THEN /\ expandedMode' = FALSE
          /\ expandedScrollOffset' = 0
          /\ expandedText' = <<>>
     ELSE UNCHANGED expandedVars
  /\ UNCHANGED <<callVars, catalogVars, resultVars, sizeVars, listVars, cursor, scrollOffset>>

\* case "right"
KeyRight ==
  /\ Running
  /\ msg' = KeyMsg("right", <<>>)
  /\ before' = <<cursor, scrollOffset>>
  /\ IF ~expandedMode /\ Len(filtered) > 0 /\ cursor < Len(filtered)
     THEN /\ expandedMode' = TRUE
          /\ expandedScrollOffset' = 0
          /\ expandedText' = prepareExpandedText(filtered, cursor, width)
     ELSE UNCHANGED expandedVars
  /\ UNCHANGED <<callVars, catalogVars, resultVars, sizeVars, listVars, cursor, scrollOffset>>

\* case "ctrl+d"
KeyCtrlD ==
  /\ Running
  /\ msg' = KeyMsg("ctrl+d", <<>>)
  /\ before' = <<cursor, scrollOffset>>
  /\ LET maxScroll == Len(expandedText) - getExpandedVisibleLines
     IN  expandedScrollOffset' =
           IF expandedMode /\ expandedScrollOffset < maxScroll
           THEN expandedScrollOffset + 1 ELSE expandedScrollOffset
  /\ UNCHANGED <<callVars, catalogVars, resultVars, sizeVars, listVars, cursor, scrollOffset,
                 expandedMode, expandedText>>

\* case "ctrl+u"
KeyCtrlU ==
  /\ Running
  /\ msg' = KeyMsg("ctrl+u", <<>>)
  /\ before' = <<cursor, scrollOffset>>
  /\ expandedScrollOffset' =
       IF expandedMode /\ expandedScrollOffset > 0
       THEN expandedScrollOffset - 1 ELSE expandedScrollOffset
  /\ UNCHANGED <<callVars, catalogVars, resultVars, sizeVars, listVars, cursor, scrollOffset,
                 expandedMode, expandedText>>

\* KeyBackspace with a fault: the query loses its last character and the list
\* is not filtered again
KeyBackspaceKeepsList ==
  /\ Running
  /\ msg' = KeyMsg("backspace", <<>>)
  /\ before' = <<cursor, scrollOffset>>
  /\ IF Len(query) > 0
     THEN /\ query' = SubSeq(query, 1, Len(query) - 1)
          /\ cursor' = 0
          /\ expandedText' = updateExpandedMode(filtered, cursor')[1]
          /\ expandedScrollOffset' = updateExpandedMode(filtered, cursor')[2]
     ELSE UNCHANGED <<query, cursor, expandedText, expandedScrollOffset>>
  /\ UNCHANGED <<callVars, catalogVars, resultVars, sizeVars, scrollOffset, expandedMode,
                 filtered>>

\* case "backspace"
KeyBackspace ==
  /\ Running
  /\ msg' = KeyMsg("backspace", <<>>)
  /\ before' = <<cursor, scrollOffset>>
  /\ IF Len(query) > 0
     THEN /\ query' = SubSeq(query, 1, Len(query) - 1)
          /\ filtered' = filterShortcuts(shortcuts, query')
          /\ cursor' = 0
          /\ expandedText' = updateExpandedMode(filtered', cursor')[1]
          /\ expandedScrollOffset' = updateExpandedMode(filtered', cursor')[2]
     ELSE UNCHANGED <<query, filtered, cursor, expandedText, expandedScrollOffset>>
  /\ UNCHANGED <<callVars, catalogVars, resultVars, sizeVars, scrollOffset, expandedMode>>

\* the printable characters among Runes, in order
RECURSIVE printableOf(_)
printableOf(runes) ==
  IF runes = <<>> THEN ""
  ELSE (IF IsPrintable(Head(runes)) THEN Head(runes) ELSE "")
         \o printableOf(Tail(runes))

\* KeyDefault with a fault: m.scrollOffset = 0 is missing, as in case "backspace"
KeyDefaultKeepsScroll ==
  /\ Running
  /\ \E runes \in RuneInputs :
       /\ Len(query \o printableOf(runes)) <= MaxQuery
       /\ msg' = KeyMsg("runes", runes)
       /\ before' = <<cursor, scrollOffset>>
       /\ query' = query \o printableOf(runes)
       /\ IF Len(runes) > 0
          THEN /\ filtered' = filterShortcuts(shortcuts, query')
               /\ cursor' = 0
               /\ expandedText' = updateExpandedMode(filtered', cursor')[1]
               /\ expandedScrollOffset' = updateExpandedMode(filtered', cursor')[2]
          ELSE UNCHANGED <<filtered, cursor, expandedText, expandedScrollOffset>>
  /\ UNCHANGED <<callVars, catalogVars, resultVars, sizeVars, expandedMode, scrollOffset>>

\* default: any other key; its Runes are appended to the query.  The model
\* writes "runes" for msg.String() of these keys, which is none of the
\* strings the cases above name.
KeyDefault ==
  /\ Running
  /\ \E runes \in RuneInputs :
       /\ Len(query \o printableOf(runes)) <= MaxQuery
       /\ msg' = KeyMsg("runes", runes)
       /\ before' = <<cursor, scrollOffset>>
       /\ query' = query \o printableOf(runes)
       /\ IF Len(runes) > 0
          THEN /\ filtered' = filterShortcuts(shortcuts, query')
               /\ cursor' = 0
               /\ scrollOffset' = 0
               /\ expandedText' = updateExpandedMode(filtered', cursor')[1]
               /\ expandedScrollOffset' = updateExpandedMode(filtered', cursor')[2]
          ELSE UNCHANGED <<filtered, cursor, scrollOffset, expandedText,
                           expandedScrollOffset>>
  /\ UNCHANGED <<callVars, catalogVars, resultVars, sizeVars, expandedMode>>

\* tea.MouseLeft
MouseLeft ==
  /\ Running
  /\ \E y \in MouseRows :
       /\ y < height
       /\ msg' = MouseMsg("MouseLeft", y)
       /\ before' = <<cursor, scrollOffset>>
       /\ LET displayLine == y - (height - 14)
              item == displayLine - 2
          IN  cursor' = IF item >= 0 /\ item < 10 THEN item + scrollOffset ELSE cursor
  /\ UNCHANGED <<callVars, catalogVars, resultVars, sizeVars, listVars, expandedVars, scrollOffset>>

\* tea.MouseWheelUp
MouseWheelUp ==
  /\ Running
  /\ msg' = MouseMsg("MouseWheelUp", 0)
  /\ before' = <<cursor, scrollOffset>>
  /\ IF cursor > 0
     THEN /\ cursor' = cursor - 1
          /\ scrollOffset' = IF cursor' - scrollOffset < 0
                             THEN scrollOffset - 1 ELSE scrollOffset
     ELSE UNCHANGED <<cursor, scrollOffset>>
  /\ UNCHANGED <<callVars, catalogVars, resultVars, sizeVars, listVars, expandedVars>>

\* tea.MouseWheelDown
MouseWheelDown ==
  /\ Running
  /\ msg' = MouseMsg("MouseWheelDown", 0)
  /\ before' = <<cursor, scrollOffset>>
  /\ IF cursor < Len(filtered) - 1
     THEN /\ cursor' = cursor + 1
          /\ scrollOffset' = IF cursor' - scrollOffset > maxVisible - 1
                             THEN scrollOffset + 1 ELSE scrollOffset
     ELSE UNCHANGED <<cursor, scrollOffset>>
  /\ UNCHANGED <<callVars, catalogVars, resultVars, sizeVars, listVars, expandedVars>>

\* any other mouse event (motion, release): Update changes nothing
MouseOther ==
  /\ Running
  /\ msg' = MouseMsg("MouseMotion", 0)
  /\ before' = <<cursor, scrollOffset>>
  /\ UNCHANGED <<callVars, catalogVars, resultVars, sizeVars, listVars, expandedVars,
                 cursor, scrollOffset>>

Next ==
  \/ WindowSize
  \/ KeyQuit
  \/ KeyEnter
  \/ KeyTab
  \/ KeyUp
  \/ KeyDown
  \/ KeyLeft
  \/ KeyRight
  \/ KeyCtrlD
  \/ KeyCtrlU
  \/ KeyBackspace
  \/ KeyDefault
  \/ MouseLeft
  \/ MouseWheelUp
  \/ MouseWheelDown
  \/ MouseOther

Spec == Init /\ [][Next]_vars

(***************************************************************************)
(* filterShortcuts called on its own, as TestFilterShortcuts calls it: a   *)
(* model built by InitialModel, its query set, the list filtered.          *)
(***************************************************************************)
FilterInit ==
  /\ shortcuts \in FilterCatalogs
  /\ filtered = shortcuts
  /\ cursor = 0
  /\ query = ""
  /\ width = 0
  /\ height = 0
  /\ selected = <<>>
  /\ selectedKey = ""
  /\ quitting = FALSE
  /\ scrollOffset = 0
  /\ maxVisible = 10
  /\ expandedMode = FALSE
  /\ expandedScrollOffset = 0
  /\ expandedText = <<>>
  /\ msg = NoMsg
  /\ before = <<0, 0>>
  /\ NormIdle
  /\ ParserIdle
  /\ PackageIdle

\* model.query = q; filtered = model.filterShortcuts()
FilterQuery(q) ==
  /\ query' = q
  /\ filtered' = filterShortcuts(shortcuts, q)
  /\ UNCHANGED <<callVars, catalogVars, resultVars, sizeVars, expandedVars, cursor,
                 scrollOffset, msg, before>>

FilterNext == \E q \in FilterQueries : FilterQuery(q)

SpecFilter == FilterInit /\ [][FilterNext]_vars

(***************************************************************************)
(* normalizeEscapeSequence called on its own, as TestNormalizeEscapeSequence *)
(* calls it, and called again on the label it returned.  The picker is not *)
(* running: its model struct has Go's zero values.                         *)
(***************************************************************************)
NoPicker ==
  /\ shortcuts = <<>>
  /\ filtered = <<>>
  /\ cursor = 0
  /\ query = ""
  /\ width = 0
  /\ height = 0
  /\ selected = <<>>
  /\ selectedKey = ""
  /\ quitting = FALSE
  /\ scrollOffset = 0
  /\ maxVisible = 0
  /\ expandedMode = FALSE
  /\ expandedScrollOffset = 0
  /\ expandedText = <<>>
  /\ msg = NoMsg
  /\ before = <<0, 0>>

pickerVars == <<shortcuts, filtered, cursor, query, width, height, selected,
                selectedKey, quitting, scrollOffset, maxVisible,
                expandedMode, expandedScrollOffset, expandedText, msg, before>>

\* longest sequence made of the characters of CaretChars
MaxSeq == 6

\* a caret, a letter, and the two characters with a label of their own
CaretChars == {"^", "a", "[", "?"}

RECURSIVE CaretSeqsOfLen(_)
CaretSeqsOfLen(n) ==
  IF n = 0 THEN {""}
  ELSE {s \o ch : s \in CaretSeqsOfLen(n - 1), ch \in CaretChars}

CaretSeqs == UNION {CaretSeqsOfLen(n) : n \in 0..MaxSeq}

\* a caret and any character
TwoCharSeqs == {"^" \o ch : ch \in PrintableASCII \cup {"\""}}

\* what follows ^[ : a character, a bracket code the code knows or does not
\* know, a control character, the letters some terminals send
EscRemainders ==
  PrintableASCII \cup {"\""} \cup
  {"[A", "[B", "[C", "[D", "[H", "[F", "[1~", "[2~", "[3~", "[4~", "[5~", "[6~",
   "[Z", "[99~", "[1;5C", "OA", "OB", "OC", "OD", "^H", "^D", "^G", "^I", "^J",
   "^M", "^x", "^@", "^_", "^1"}

EscSeqs == {"^[" \o r : r \in EscRemainders}

\* chords of two and three control characters
ChordChars == {"X", "E", "r", "@", "_", "\\", "]", "1"}

ChordSeqs ==
  {"^" \o a \o "^" \o b : a, b \in ChordChars} \cup
  {"^" \o a \o "^" \o b \o "^" \o c : a, b, c \in {"X", "e", "]"}}

\* sequences as bindkey prints them, and text that is no sequence
QuotedSeqs == {"\"" \o s \o "\"" : s \in {"^A", "^[f", "^[[A", "^X^E", "a", ""}}

PlainSeqs == {"a", "A", "1", " ", "!", "[A", "xyz", "Ctrl+A", "Esc"}

NormInputs ==
  CaretSeqs \cup TwoCharSeqs \cup EscSeqs \cup ChordSeqs \cup QuotedSeqs \cup PlainSeqs

NormInit ==
  /\ NoPicker
  /\ ParserIdle
  /\ PackageIdle
  /\ seq \in NormInputs
  /\ displayName = ""
  /\ calls = 0

\* displayName := normalizeEscapeSequence(seq)
Normalize ==
  /\ calls = 0
  /\ displayName' = normalizeEscapeSequence(seq)
  /\ calls' = 1
  /\ UNCHANGED <<seq, parserVars, pickerVars, packageVars>>

\* the label handed to normalizeEscapeSequence as a sequence
NormalizeLabel ==
  /\ calls = 1
  /\ seq' = displayName
  /\ displayName' = normalizeEscapeSequence(displayName)
  /\ calls' = 2
  /\ UNCHANGED <<parserVars, pickerVars, packageVars>>

NormNext == Normalize \/ NormalizeLabel

SpecNormalize == NormInit /\ [][NormNext]_vars

(***************************************************************************)
(* parseBindkeyOutput called on a text.  On the empty text it goes through *)
(* getFilteredZshBindings and getZshBindings to run zsh, whose answer is   *)
(* handed to parseBindkeyOutput again; what zsh answers is the choice of   *)
(* the environment.                                                        *)
(***************************************************************************)
\* most lines of a table text
MaxLines == 2

\* most calls of getFilteredZshBindings pending at once
MaxFrames == 2

RECURSIVE Spaces(_)
Spaces(doublings) ==
  IF doublings = 0 THEN " "
  ELSE LET half == Spaces(doublings - 1) IN half \o half

\* a binding line with MaxScanTokenSize spaces between sequence and widget
LongLine == "\"^A\"" \o Spaces(16) \o "beginning-of-line"

\* lines of a table: bindings, the same sequence bound twice, a range, a blank
\* line, lines of another shape, widgets that are skipped, a line with blanks
\* and a carriage return around it, and a line too long for the scanner
BindkeyLines ==
  {"\"^A\" beginning-of-line", "\"^E\" end-of-line", "\"a\" self-insert",
   "\"^A\" different-widget", "\"^A\"-\"^C\" self-insert", "",
   "invalid line", "malformed \"^A beginning-of-line", "\"^[\" vi-cmd-mode",
   "\"^X\" _read_comp", "  \"^[f\"   forward-word \r", "\"^I\" beep",
   LongLine}

\* a table of the widgets of skipWidgets and nothing else
NoiseTable ==
  "\"a\" self-insert\n\"^[a\" self-insert-unmeta\n\"^Q\" undefined-key\n"
  \o "\"^[1\" digit-argument\n\"^[-\" neg-argument\n\"^U\" universal-argument\n"
  \o "\"^[[200~\" bracketed-paste\n\"^[[201~\" bracketed-paste-magic\n"
  \o "\"^G\" beep\n\"^N\" noop\n"

\* the table of the spec's scenario
ScenarioTable ==
  "\"^A\" beginning-of-line\n\"^E\" end-of-line\n\"a\" self-insert\n"

RECURSIVE TablesOfLen(_)
TablesOfLen(n) ==
  IF n = 0 THEN {""}
  ELSE {t \o line \o "\n" : t \in TablesOfLen(n - 1), line \in BindkeyLines}

\* table texts: up to MaxLines lines, each ended by a newline or the last one
\* not, and the two tables above
Tables ==
  LET ended == UNION {TablesOfLen(n) : n \in 1..MaxLines}
  IN  ended \cup {SubSeq(t, 1, Len(t) - 1) : t \in ended}
            \cup {NoiseTable, ScenarioTable}

\* what zsh -i -c bindkey may print
ShellOutputs ==
  {ScenarioTable, NoiseTable,
   "\"^A\" beginning-of-line\n\"^A\" different-widget\n\"a\" self-insert\n\"b\" b-widget\n",
   LongLine \o "\n"}

BindkeyInit ==
  /\ NoPicker
  /\ NormIdle
  /\ ParserIdle
  /\ PackageIdle

\* parseBindkeyOutput(text) for a text that is not empty
ParseTable(text) ==
  /\ pc = "idle"
  /\ text # ""
  /\ output' = text
  /\ LET result == parseTable(text)
     IN  entries' = result.entries /\ err' = result.err
  /\ pc' = "done"
  /\ UNCHANGED <<shellOutput, frames, normVars, pickerVars, packageVars>>

\* parseBindkeyOutput(""): getFilteredZshBindings, getZshBindings, and zsh
\* is started
ParseEmpty ==
  /\ pc = "idle"
  /\ output' = ""
  /\ frames' = 1
  /\ pc' = "exec"
  /\ UNCHANGED <<shellOutput, entries, err, normVars, pickerVars, packageVars>>

\* cmd.Output() returns an error: every pending call returns nil and the error
ExecFails ==
  /\ pc = "exec"
  /\ entries' = <<>>
  /\ err' = ErrExec
  /\ pc' = "done"
  /\ UNCHANGED <<output, shellOutput, frames, normVars, pickerVars, packageVars>>

\* zsh prints a table: parseBindkeyOutput parses it, and each pending
\* getFilteredZshBindings filters the entries or passes the error on
ExecPrints(text) ==
  /\ pc = "exec"
  /\ text # ""
  /\ shellOutput' = text
  /\ LET result == parseTable(text)
     IN  /\ err' = result.err
         /\ entries' = IF result.err # "" THEN <<>>
                       ELSE filterTimes(result.entries, frames)
  /\ pc' = "done"
  /\ UNCHANGED <<output, frames, normVars, pickerVars, packageVars>>

\* zsh prints nothing and exits with status 0: parseBindkeyOutput("") is
\* called from getZshBindings and starts zsh once more
ExecPrintsNothing ==
  /\ pc = "exec"
  /\ frames < MaxFrames
  /\ shellOutput' = ""
  /\ frames' = frames + 1
  /\ UNCHANGED <<output, entries, err, pc, normVars, pickerVars, packageVars>>

BindkeyNext ==
  \/ \E text \in Tables : ParseTable(text)
  \/ ParseEmpty
  \/ ExecFails
  \/ \E text \in ShellOutputs : ExecPrints(text)
  \/ ExecPrintsNothing

SpecBindkey == BindkeyInit /\ [][BindkeyNext]_vars

(***************************************************************************)
(* extractFirstSentence called on its own, as TestExtractFirstSentence     *)
(* calls it, and called again on the sentence it returned.                 *)
(***************************************************************************)
\* most characters of the part of a text that is not filler
MaxTail == 3

\* a letter, the three punctuation marks and white space
TailChars == {"a", ".", "!", "?", " ", "\n"}

RECURSIVE TailsOfLen(_)
TailsOfLen(n) ==
  IF n = 0 THEN {""}
  ELSE {s \o ch : s \in TailsOfLen(n - 1), ch \in TailChars}

Tails == UNION {TailsOfLen(n) : n \in 0..MaxTail}

RECURSIVE Filler(_)
Filler(n) ==
  IF n = 0 THEN ""
  ELSE IF n = 1 THEN "a"
  ELSE Filler(n \div 2) \o Filler(n - n \div 2)

\* lengths of filler that bring a text to either side of Keep and of Budget
FillerLens == {0} \cup ((Keep - MaxTail)..(Budget + 1))

\* the inputs of TestExtractFirstSentence
TestSentences ==
  {"Finish editing the buffer. Normally, this will accept the line and execute it.",
   "Move to the beginning of the line.  If already at the beginning of the line, move to the beginning of the previous line, if any.",
   "Delete the character behind the cursor",
   "Clear the screen! This is important.",
   "Why would you do this? Because it's useful.",
   "Short text",
   "   \n\t   ",
   "This is a very long description that goes on and on and on and should be truncated because it's way too long for a short description and would be annoying to read",
   "Finish editing the buffer.  Normally, this will accept the line and execute it."}

\* filler with a tail before or after it, and the inputs of the test
Texts ==
  {Filler(n) \o t : n \in FillerLens, t \in Tails} \cup
  {t \o Filler(n) : n \in FillerLens, t \in Tails} \cup TestSentences

ExtractInit ==
  /\ NoPicker
  /\ NormIdle
  /\ ParserIdle
  /\ ManIdle
  /\ ConvertIdle
  /\ CacheIdle
  /\ MergeIdle
  /\ EntryFilterIdle
  /\ fullDescription \in Texts
  /\ shortDescription = ""
  /\ extractCalls = 0

\* shortDescription := extractFirstSentence(fullDescription)
Extract ==
  /\ extractCalls = 0
  /\ shortDescription' = extractFirstSentence(fullDescription)
  /\ extractCalls' = 1
  /\ UNCHANGED <<fullDescription, normVars, parserVars, pickerVars, manVars, convertVars, cacheVars, mergeVars, entryFilterVars>>

\* the sentence handed to extractFirstSentence as a text
ExtractAgain ==
  /\ extractCalls = 1
  /\ fullDescription' = shortDescription
  /\ shortDescription' = extractFirstSentence(shortDescription)
  /\ extractCalls' = 2
  /\ UNCHANGED <<normVars, parserVars, pickerVars, manVars, convertVars, cacheVars, mergeVars, entryFilterVars>>

ExtractNext == Extract \/ ExtractAgain

SpecExtract == ExtractInit /\ [][ExtractNext]_vars

(***************************************************************************)
(* ParseManPageDescriptions called on a text, as                           *)
(* TestParseManPageDescriptions calls it.                                  *)
(***************************************************************************)
\* most lines of a manual text
MaxManLines == 4

\* lines of the manual: two widget headers, a description line, an empty
\* line, the header of a subsection and of a section and a widget name
\* without keys
ManLines ==
  {"       accept-line (^J ^M) (^J ^M) (^J ^M)",
   "       backward-char (^B) (unbound) (^B)",
   "              Finish editing the buffer.  Normally, this will accept the line",
   "",
   "   Movement",
   "SEE ALSO",
   "       kill-line"}

RECURSIVE ManTextsOfLen(_)
ManTextsOfLen(n) ==
  IF n = 0 THEN {""}
  ELSE {t \o line \o "\n" : t \in ManTextsOfLen(n - 1), line \in ManLines}

\* the text of TestParseManPageDescriptions up to its third widget
SampleManPage ==
  "ZSHZLE(1)                                                            ZSHZLE(1)\n"
  \o "\nNAME\n       zsh line editor\n\nDESCRIPTION\n"
  \o "       ZLE (Zsh Line Editor) is the command line editor for zsh.\n\n"
  \o "       accept-line (^J ^M) (^J ^M) (^J ^M)\n"
  \o "              Finish editing the buffer.  Normally, this will accept the line\n"
  \o "              and execute it.\n\n"
  \o "       accept-line-and-down-history (^O) (unbound) (unbound)\n"
  \o "              Execute the current line, and push the next history event on the\n"
  \o "              editing buffer stack.\n\n"
  \o "       backward-char (^B) (unbound) (^B)\n"
  \o "              Move backward one character.\n\n"
  \o "   Movement\n       These widgets move the cursor around the line.\n\n"
  \o "       forward-word (^[F ^[f) (W) (^[F ^[f)\n"
  \o "              Move to the beginning of the next word.\n\n"
  \o "SEE ALSO\n       zsh(1), zshcontrib(1)\n\n"
  \o "AUTHOR\n       This manual page was written by the Zsh development team."

\* manual texts: up to MaxManLines lines, the text of the test, and a text
\* with a line too long for the scanner
ManTexts ==
  UNION {ManTextsOfLen(n) : n \in 0..MaxManLines}
    \cup {SampleManPage, "       accept-line (^J)\n" \o LongLine \o "\n"}

ManInit ==
  /\ NoPicker
  /\ NormIdle
  /\ ParserIdle
  /\ ExtractIdle
  /\ ConvertIdle
  /\ CacheIdle
  /\ MergeIdle
  /\ EntryFilterIdle
  /\ content \in ManTexts
  /\ descriptions = <<>>
  /\ manErr = ""
  /\ manCalls = 0

\* descriptions, err := ParseManPageDescriptions(content)
ParseManPage ==
  /\ manCalls = 0
  /\ LET result == ParseManPageDescriptions(content)
     IN  descriptions' = result.descriptions /\ manErr' = result.err
  /\ manCalls' = 1
  /\ UNCHANGED <<content, normVars, parserVars, pickerVars, extractVars, convertVars, cacheVars, mergeVars, entryFilterVars>>

ManNext == ParseManPage

SpecManpage == ManInit /\ [][ManNext]_vars

(***************************************************************************)
(* convertBindkeyToShortcuts called on a binding table and a map of        *)
(* descriptions, as TestConvertBindkeyToShortcuts calls it.                *)
(***************************************************************************)
\* most entries of a binding table
MaxEntries == 3

\* the entries of the test, and a second key of the widget of the first
EntryPool ==
  {[EscapeSequence |-> "^A", WidgetName |-> "beginning-of-line", DisplayName |-> "Ctrl+A"],
   [EscapeSequence |-> "^E", WidgetName |-> "end-of-line", DisplayName |-> "Ctrl+E"],
   [EscapeSequence |-> "^F", WidgetName |-> "forward-char", DisplayName |-> "Ctrl+F"],
   [EscapeSequence |-> "^[[H", WidgetName |-> "beginning-of-line", DisplayName |-> "Home"]}

\* tables without a sequence bound twice, as filterBindkeyEntries leaves them
EntryLists ==
  UNION {{list \in [1..n -> EntryPool] :
            \A i, j \in 1..n : i # j => list[i].EscapeSequence # list[j].EscapeSequence} :
         n \in 0..MaxEntries}

\* descriptions as ParseManPageDescriptions makes them
DescriptionPool ==
  ParseManPageDescriptions(
    "       beginning-of-line (^A) (unbound) (unbound)\n"
    \o "              Move to the beginning of the line.  If already at the beginning\n"
    \o "              of the line, move to the beginning of the previous line, if any.\n"
    \o "       end-of-line (^E) (unbound) (unbound)\n"
    \o "              Move to the end of the line.\n"
    \o "       accept-line (^J ^M) (^J ^M) (^J ^M)\n"
    \o "              Finish editing the buffer.  Normally, this will accept the line\n"
    \o "              and execute it.\n").descriptions

\* the maps of some of the descriptions
DescriptionMaps ==
  {[name \in names |-> DescriptionPool[name]] : names \in SUBSET DOMAIN DescriptionPool}

ConvertInit ==
  /\ NoPicker
  /\ NormIdle
  /\ ParserIdle
  /\ ExtractIdle
  /\ ManIdle
  /\ CacheIdle
  /\ MergeIdle
  /\ EntryFilterIdle
  /\ bindkeyEntries \in EntryLists
  /\ manDescriptions \in DescriptionMaps
  /\ converted = <<>>
  /\ convertCalls = 0

\* converted := convertBindkeyToShortcuts(bindkeyEntries, manDescriptions)
Convert ==
  /\ convertCalls = 0
  /\ converted' = convertBindkeyToShortcuts(bindkeyEntries, manDescriptions)
  /\ convertCalls' = 1
  /\ UNCHANGED <<bindkeyEntries, manDescriptions, normVars, parserVars, pickerVars,
                 extractVars, manVars, cacheVars, mergeVars, entryFilterVars>>

ConvertNext == Convert

SpecConvert == ConvertInit /\ [][ConvertNext]_vars

(***************************************************************************)
(* The methods of CacheManager called one after another on one file, as    *)
(* the tests of the cache call them, and the file written by others.       *)
(***************************************************************************)
\* the binding tables and the descriptions saved
SavedTables ==
  {<<>>,
   <<[EscapeSequence |-> "^A", WidgetName |-> "beginning-of-line", DisplayName |-> "Ctrl+A"]>>,
   <<[EscapeSequence |-> "^A", WidgetName |-> "beginning-of-line", DisplayName |-> "Ctrl+A"],
     [EscapeSequence |-> "^E", WidgetName |-> "end-of-line", DisplayName |-> "Ctrl+E"]>>}

SavedDescriptions == {<<>>, DescriptionPool}

\* time.Now() at two moments
Times ==
  {[wall |-> "2025-01-01T10:00:00Z", monotonic |-> TRUE],
   [wall |-> "2025-06-30T23:59:59Z", monotonic |-> TRUE]}

\* files written by others: one that cannot be opened, texts that are no
\* JSON document, documents that do not fit CacheData, and documents that do
ForeignFiles ==
  {LockedFile, TextFile("invalid json"), TextFile(""),
   TextFile("{\"cache_version\": \"1.0\""),
   JsonFile(JsonArray(<<>>)), JsonFile(JsonString("1.0")),
   JsonFile(JsonObject([cache_version |-> JsonArray(<<>>)])),
   JsonFile(JsonObject([bindkey_entries |-> JsonString("^A")])),
   JsonFile(JsonObject([timestamp |-> JsonString("yesterday")])),
   JsonFile(JsonNull), JsonFile(JsonObject(<<>>)),
   JsonFile(JsonObject([cache_version |-> JsonString("1.0"),
                        timestamp |-> JsonString("2025-01-01T10:00:00Z"),
                        theme |-> JsonString("dark")]))}

CacheInit ==
  /\ NoPicker
  /\ NormIdle
  /\ ParserIdle
  /\ ExtractIdle
  /\ ManIdle
  /\ ConvertIdle
  /\ CacheIdle
  /\ MergeIdle
  /\ EntryFilterIdle

otherVars == <<normVars, parserVars, pickerVars, extractVars, manVars, convertVars, mergeVars, entryFilterVars>>

\* cacheData, err := cm.LoadCache()
LoadCache ==
  /\ LET result == loadCache(cacheFile)
     IN  cacheData' = result.data /\ cacheErr' = result.err
  /\ cacheOp' = "load"
  /\ UNCHANGED <<cacheFile, saved, otherVars>>

\* err := cm.SaveCache(entryList, descs) at the time now
SaveCache(entryList, descs, now) ==
  /\ LET result == saveCache(cacheFile, entryList, descs, now)
     IN  /\ cacheFile' = result.file
         /\ cacheErr' = result.err
         /\ saved' = IF result.err = ""
                     THEN <<[BindkeyEntries |-> entryList, ManDescriptions |-> descs]>>
                     ELSE saved
  /\ cacheOp' = "save"
  /\ UNCHANGED <<cacheData, otherVars>>

\* err := cm.ClearCache()
ClearCache ==
  /\ LET result == clearCache(cacheFile)
     IN  /\ cacheFile' = result.file
         /\ cacheErr' = result.err
         /\ saved' = IF result.err = "" THEN <<>> ELSE saved
  /\ cacheOp' = "clear"
  /\ UNCHANGED <<cacheData, otherVars>>

\* the file is written by another program
ForeignWrite(file) ==
  /\ cacheFile' = file
  /\ cacheOp' = ""
  /\ cacheErr' = ""
  /\ UNCHANGED <<cacheData, saved, otherVars>>

CacheNext ==
  \/ LoadCache
  \/ \E entryList \in SavedTables, descs \in SavedDescriptions, now \in Times :
       SaveCache(entryList, descs, now)
  \/ ClearCache
  \/ \E file \in ForeignFiles : ForeignWrite(file)

SpecCache == CacheInit /\ [][CacheNext]_vars

\* the methods alone: no other program writes the file
CycleNext ==
  \/ LoadCache
  \/ \E entryList \in SavedTables, descs \in SavedDescriptions, now \in Times :
       SaveCache(entryList, descs, now)
  \/ ClearCache

SpecCacheCycle == CacheInit /\ [][CycleNext]_vars

(***************************************************************************)
(* mergeShortcuts called once on a catalog and a configuration, the keys   *)
(* of the configuration visited in any order.                              *)
(***************************************************************************)
MaxRules == 2

\* the built-ins of TestMergeShortcuts, in the order of their Display
TestBuiltins ==
  <<[Display |-> "Alt+F", Description |-> "Forward word",
     FullDescription |-> "Move to the beginning of the next word.",
     Type |-> "widget", Target |-> "forward-word", IsCustom |-> FALSE],
    [Display |-> "Ctrl+A", Description |-> "Beginning of line",
     FullDescription |-> "Move to the beginning of the line.",
     Type |-> "widget", Target |-> "beginning-of-line", IsCustom |-> FALSE],
    [Display |-> "Ctrl+E", Description |-> "End of line",
     FullDescription |-> "Move to the end of the line.",
     Type |-> "widget", Target |-> "end-of-line", IsCustom |-> FALSE]>>

\* two of the built-ins of getZshBuiltinShortcuts whose labels differ in the
\* case of the letter
CaseBuiltins ==
  <<[Display |-> "Alt+A", Description |-> "Accept and hold",
     FullDescription |-> "Accept the current line and push it onto the history stack.",
     Type |-> "widget", Target |-> "accept-and-hold", IsCustom |-> FALSE],
    [Display |-> "Alt+a", Description |-> "Accept and hold",
     FullDescription |-> "Accept the current line and push it onto the history stack.",
     Type |-> "widget", Target |-> "accept-and-hold", IsCustom |-> FALSE]>>

\* the catalogs: the built-ins of the test, Ctrl+A and Ctrl+E in them or not,
\* and the built-ins of the test with the two of getZshBuiltinShortcuts
BuiltinLists ==
  {SelectSeq(TestBuiltins, LAMBDA shortcut : shortcut.Display \notin labels) :
     labels \in SUBSET {"Ctrl+A", "Ctrl+E"}}
  \cup {sortByDisplay(TestBuiltins \o CaseBuiltins)}

\* keys of the configuration: two spellings of Ctrl+A, one of Ctrl+E, one of
\* Alt+A and a key of no built-in
ConfigKeys == {"Ctrl+A", "ctrl+a", "^E", " alt+a ", "git-status"}

ConfigValues ==
  {ConfigBool(FALSE), ConfigBool(TRUE), ConfigString(""),
   ConfigString("Custom end of line"),
   ConfigObject([description |-> ConfigString("Start of line"),
                 target |-> ConfigBool(TRUE)]),
   ConfigObject([display |-> ConfigString("gs"),
                 description |-> ConfigString("Git status"),
                 type |-> ConfigString("command"),
                 target |-> ConfigString("git status")])}

\* the configurations of at most MaxRules keys
Configs ==
  UNION {[keys -> ConfigValues] :
           keys \in {k \in SUBSET ConfigKeys : Cardinality(k) <= MaxRules}}

MergeInit ==
  /\ NoPicker
  /\ NormIdle
  /\ ParserIdle
  /\ ExtractIdle
  /\ ManIdle
  /\ ConvertIdle
  /\ CacheIdle
  /\ EntryFilterIdle
  /\ builtins \in BuiltinLists
  /\ config \in Configs
  /\ rangeOrder = <<>>
  /\ shortcutMap = <<>>
  /\ merged = <<>>
  /\ mergeCalls = 0

\* merged := mergeShortcuts(builtins, config)
Merge ==
  /\ mergeCalls = 0
  /\ \E order \in RangeOrders(config) :
       /\ rangeOrder' = order
       /\ shortcutMap' = mergedMap(builtins, config, order)
       /\ merged' \in sortedResults(shortcutMap')
  /\ mergeCalls' = 1
  /\ UNCHANGED <<builtins, config, normVars, parserVars, pickerVars, extractVars,
                 manVars, convertVars, cacheVars, entryFilterVars>>

MergeNext == Merge

SpecMerge == MergeInit /\ [][MergeNext]_vars

(***************************************************************************)
(* filterBindkeyEntries called once on a table.                            *)
(***************************************************************************)
\* the entries of TestFilterBindkeyEntries, and entries whose label is one
\* character
UnfilteredPool ==
  {[EscapeSequence |-> "^A", WidgetName |-> "beginning-of-line", DisplayName |-> "Ctrl+A"],
   [EscapeSequence |-> "^B", WidgetName |-> "backward-char", DisplayName |-> "Ctrl+B"],
   [EscapeSequence |-> "^A", WidgetName |-> "different-widget", DisplayName |-> "Ctrl+A"],
   [EscapeSequence |-> "a", WidgetName |-> "self-insert", DisplayName |-> "a"],
   [EscapeSequence |-> "", WidgetName |-> "some-widget", DisplayName |-> ""],
   [EscapeSequence |-> "^", WidgetName |-> "self-insert", DisplayName |-> "^"],
   [EscapeSequence |-> "~", WidgetName |-> "self-insert", DisplayName |-> "~"]}

\* the tables of at most MaxEntries entries
UnfilteredLists == UNION {[1..n -> UnfilteredPool] : n \in 0..MaxEntries}

EntryFilterInit ==
  /\ NoPicker
  /\ NormIdle
  /\ ParserIdle
  /\ ExtractIdle
  /\ ManIdle
  /\ ConvertIdle
  /\ CacheIdle
  /\ MergeIdle
  /\ unfilteredEntries \in UnfilteredLists
  /\ usefulEntries = <<>>
  /\ entryFilterCalls = 0

\* usefulEntries := filterBindkeyEntries(unfilteredEntries)
FilterEntries ==
  /\ entryFilterCalls = 0
  /\ usefulEntries' = filterBindkeyEntries(unfilteredEntries)
  /\ entryFilterCalls' = 1
  /\ UNCHANGED <<unfilteredEntries, normVars, parserVars, pickerVars, extractVars,
                 manVars, convertVars, cacheVars, mergeVars>>

EntryFilterNext == FilterEntries

SpecEntryFilter == EntryFilterInit /\ [][EntryFilterNext]_vars

(***************************************************************************)
(* Properties of the picker.                                               *)
(***************************************************************************)
IsKey(m, k) == m.type = "KeyMsg" /\ m.key = k

IsMouse(m, t) == m.type = "MouseMsg" /\ m.key = t

\* the variables of the model struct, without the bookkeeping of msg and before
modelVars == <<shortcuts, filtered, cursor, query, width, height, selected,
               selectedKey, quitting, scrollOffset, maxVisible,
               expandedMode, expandedScrollOffset, expandedText>>

\* C1: after any sequence of input events on a non-empty filtered list the
\* cursor row lies inside the visible window,
\* scrollOffset <= cursor <= scrollOffset + maxVisible - 1, with maxVisible = 10.
C1_CursorInVisibleWindow ==
  Len(filtered) > 0 =>
    /\ maxVisible = 10
    /\ scrollOffset <= cursor
    /\ cursor <= scrollOffset + maxVisible - 1

\* C2: up and down never move the cursor outside [0, len(filtered)-1]: down
\* moves it one row down only while that row exists, up one row up only while
\* the cursor is above row 0, a cursor in range stays in range, and on the
\* last entry down (at row 0 up) leaves cursor and scrollOffset unchanged.
C2_UpDownClamped ==
  [][/\ IsKey(msg', "down") =>
          /\ \/ cursor' = cursor
             \/ cursor' = cursor + 1 /\ cursor' <= Len(filtered) - 1
          /\ (cursor >= Len(filtered) - 1) =>
                (cursor' = cursor /\ scrollOffset' = scrollOffset)
          /\ (cursor \in 0..(Len(filtered) - 1)) =>
                (cursor' \in 0..(Len(filtered') - 1))
     /\ IsKey(msg', "up") =>
          /\ \/ cursor' = cursor
             \/ cursor' = cursor - 1 /\ cursor' >= 0
          /\ (cursor = 0) => (cursor' = cursor /\ scrollOffset' = scrollOffset)
          /\ (cursor \in 0..(Len(filtered) - 1)) =>
                (cursor' \in 0..(Len(filtered') - 1))
    ]_vars

\* down was pressed with 3 filtered entries and the cursor on the last one,
\* and the cursor is still there
C2_DownOnLastEntry ==
  /\ IsKey(msg, "down")
  /\ Len(filtered) = 3
  /\ before = <<2, 0>>
  /\ cursor = 2
  /\ scrollOffset = 0

\* C3: a left click moves the cursor only to a visible list row that holds an
\* entry: a cursor below len(filtered) stays below it, and a click outside the
\* list rows or on a row past the last filtered entry leaves the cursor unchanged.
C3_ClickStaysOnEntry ==
  [][IsMouse(msg', "MouseLeft") =>
       LET item == msg'.Y - (height - 14) - 2
       IN  /\ (cursor < Len(filtered)) => (cursor' < Len(filtered'))
           /\ (item < 0 \/ item >= maxVisible \/ item + scrollOffset >= Len(filtered)) =>
                 (cursor' = cursor)
    ]_vars

\* C4: backspace on a non-empty query removes the last character, filters the
\* full catalog again and sets cursor and scrollOffset to 0; on an empty query
\* it changes nothing.
C4_BackspaceResets ==
  [][IsKey(msg', "backspace") =>
       IF Len(query) > 0
       THEN /\ query' = SubSeq(query, 1, Len(query) - 1)
            /\ filtered' = filterShortcuts(shortcuts, query')
            /\ cursor' = 0
            /\ scrollOffset' = 0
       ELSE UNCHANGED modelVars
    ]_vars

C6_AcceptReturnsEntry ==
  [][/\ \A k \in {"enter", "tab"} :
          (IsKey(msg', k) /\ Len(filtered) > 0) =>
             /\ quitting'
             /\ selectedKey' = k
             /\ selected' = <<filtered[cursor + 1]>>
     /\ (selected' # <<>>) => (selectedKey' \in {"enter", "tab"})
    ]_vars

\* C7: escape and ctrl+c are handled in every state of the running loop, end
\* it, and leave no selection: selected is nil and selectedKey is empty.
C7_QuitReturnsNoSelection ==
  /\ [](Running => ENABLED KeyQuit)
  /\ [][(IsKey(msg', "esc") \/ IsKey(msg', "ctrl+c")) =>
          /\ quitting'
          /\ selected' = <<>>
          /\ selectedKey' = ""
       ]_vars

\* escape ended the loop in expanded mode, with a query typed and the cursor
\* moved, and nothing is selected
C7_QuitFromExpanded ==
  /\ IsKey(msg, "esc")
  /\ quitting
  /\ expandedMode
  /\ query # ""
  /\ cursor > 0
  /\ selected = <<>>
  /\ selectedKey = ""

\* C8: j and k are navigation keys: j acts on the picker like down and k like
\* up, and neither changes the query or the filtered list.
C8_ViKeysNavigate ==
  [][/\ (IsKey(msg', "runes") /\ msg'.Runes = <<"j">>) =>
          (caseDown /\ query' = query /\ filtered' = filtered)
     /\ (IsKey(msg', "runes") /\ msg'.Runes = <<"k">>) =>
          (caseUp /\ query' = query /\ filtered' = filtered)
    ]_vars

\* C9: a wheel-down event leaves the picker as the down key does, and a
\* wheel-up event as the up key does, in browsing and in expanded mode: the
\* same cursor, scrollOffset and expanded description.
C9_WheelActsAsKeys ==
  [][/\ IsMouse(msg', "MouseWheelDown") =>
          (caseDown /\ UNCHANGED <<expandedMode, expandedScrollOffset>>)
     /\ IsMouse(msg', "MouseWheelUp") =>
          (caseUp /\ UNCHANGED <<expandedMode, expandedScrollOffset>>)
    ]_vars

\* C10: a resize recomputes the page size (10, less when the terminal has
\* fewer rows) and clamps scrollOffset and cursor, so that the cursor is in
\* range and visible under the new size.
C10_ResizeReclamps ==
  [][(msg'.type = "WindowSizeMsg") =>
       /\ maxVisible' <= 10
       /\ maxVisible' <= height'
       /\ (Len(filtered') > 0) =>
            /\ cursor' < Len(filtered')
            /\ scrollOffset' <= cursor'
            /\ cursor' <= scrollOffset' + maxVisible' - 1
    ]_vars

\* C11: right in browsing mode with an entry under the cursor enters expanded
\* mode with expandedScrollOffset = 0 and the wrapped description of that
\* entry; left in expanded mode returns to browsing with offset 0 and no
\* wrapped text; right in expanded mode and left in browsing mode change
\* nothing; neither key changes cursor, scrollOffset, query or filtered.
C11_ModeTransitions ==
  [][/\ IsKey(msg', "right") =>
          /\ UNCHANGED <<cursor, scrollOffset, query, filtered>>
          /\ (~expandedMode /\ cursor < Len(filtered)) =>
                /\ expandedMode'
                /\ expandedScrollOffset' = 0
                /\ expandedText' = wrapText(fullDescOf(filtered[cursor + 1]),
                                            Max(width \div 2 - 4, 20))
          /\ expandedMode => UNCHANGED modelVars
     /\ IsKey(msg', "left") =>
          /\ UNCHANGED <<cursor, scrollOffset, query, filtered>>
          /\ expandedMode =>
                /\ ~expandedMode'
                /\ expandedScrollOffset' = 0
                /\ expandedText' = <<>>
          /\ ~expandedMode => UNCHANGED modelVars
    ]_vars

\* left was pressed in expanded mode: the picker is back in browsing mode on
\* row 10 of the scrolled list, the description and its scroll discarded
C11_LeftFromExpanded ==
  /\ IsKey(msg, "left")
  /\ ~expandedMode
  /\ expandedScrollOffset = 0
  /\ expandedText = <<>>
  /\ cursor = 10
  /\ before = <<10, 1>>
  /\ ENABLED (KeyRight /\ expandedMode' /\ Len(expandedText') > maxVisible)

\* C12: in expanded mode ctrl+d and ctrl+u scroll the wrapped description by
\* one line, clamped so that
\* 0 <= expandedScrollOffset <= max(0, lines - visible window); in browsing
\* mode both keys change nothing.
C12_ExpandedScrollClamped ==
  [][(IsKey(msg', "ctrl+d") \/ IsKey(msg', "ctrl+u")) =>
       IF expandedMode
       THEN /\ expandedScrollOffset' \in
                 {expandedScrollOffset,
                  IF IsKey(msg', "ctrl+d")
                  THEN expandedScrollOffset + 1 ELSE expandedScrollOffset - 1}
            /\ expandedScrollOffset' >= 0
            /\ expandedScrollOffset' <=
                 Max(0, Len(expandedText') - getExpandedVisibleLines)
       ELSE UNCHANGED modelVars
    ]_vars

\* C13: the filter returns all entries in catalog order when the query is
\* empty; for a non-empty query it returns exactly the entries whose text
\* Display + " " + Description contains the query's characters in order,
\* case-insensitively, each once; so an entry whose label contains the query
\* as a substring is included, and the result is the empty list when no entry
\* matches.
C13_FilterIsSubsequenceMatch ==
  LET SameLetter(a, b) ==
        a = b \/ \E i \in 1..26 : {a, b} = {UpperChars[i], LowerChars[i]}
      RECURSIVE InOrder(_, _, _, _)
      InOrder(q, t, i, j) ==
        IF i > Len(q) THEN TRUE
        ELSE IF j > Len(t) THEN FALSE
        ELSE IF SameLetter(At(q, i), At(t, j)) THEN InOrder(q, t, i + 1, j + 1)
        ELSE InOrder(q, t, i, j + 1)
      Text(e) == e.Display \o " " \o e.Description
      Matching == {e \in {shortcuts[i] : i \in 1..Len(shortcuts)} :
                     InOrder(query, Text(e), 1, 1)}
      HasSubstring(t) ==
        \E k \in 1..(Len(t) - Len(query) + 1) :
           SubSeq(t, k, k + Len(query) - 1) = query
  IN  IF query = "" THEN filtered = shortcuts
      ELSE /\ {filtered[i] : i \in 1..Len(filtered)} = Matching
           /\ Len(filtered) = Cardinality(Matching)
           /\ \A i \in 1..Len(shortcuts) :
                HasSubstring(shortcuts[i].Display) =>
                  \E k \in 1..Len(filtered) : filtered[k] = shortcuts[i]
           /\ Matching = {} => filtered = <<>>

\* the query "cL" on the catalog of TestFilterShortcuts: a substring of no
\* entry, in order and in the other case in three of the four, which are
\* returned best match first and not in catalog order
C13_QueryInOtherCase ==
  /\ shortcuts = FilterTestShortcuts
  /\ query = "cL"
  /\ Len(filtered) = 3
  /\ filtered # SubSeq(shortcuts, 1, 2) \o SubSeq(shortcuts, 4, 4)
  /\ \A i \in 1..3 : filtered[i].Display # "Alt+F"

\* C17 (as claimed): for every two-character caret sequence normalize returns
\* the fixed label: ^[ -> Esc, ^? -> Backspace, ^I -> Tab, ^M -> Enter,
\* ^@ ^\ ^] ^^ ^_ -> Ctrl+<char>, every other letter in either case ->
\* Ctrl+<UPPER(letter)>.
C17_TwoCharTableWithTabEnter ==
  (calls = 1 /\ Len(seq) = 2 /\ At(seq, 1) = "^") =>
    LET ch == At(seq, 2)
        up == IF ch \in LowerSet
              THEN UpperChars[CHOOSE i \in 1..26 : LowerChars[i] = ch] ELSE ch
    IN  /\ ch = "[" => displayName = "Esc"
        /\ ch = "?" => displayName = "Backspace"
        /\ up = "I" => displayName = "Tab"
        /\ up = "M" => displayName = "Enter"
        /\ ch \in {"@", "\\", "]", "^", "_"} => displayName = "Ctrl+" \o ch
        /\ (up \in UpperSet \ {"I", "M"}) => displayName = "Ctrl+" \o up

\* C17 (amended): for every two-character caret sequence normalize returns
\* the fixed label: ^[ -> Esc, ^? -> Backspace, ^@ ^\ ^] ^^ ^_ ->
\* Ctrl+<char>, and every letter in either case, I and M among them ->
\* Ctrl+<UPPER(letter)> (^I is Ctrl+I, ^M is Ctrl+M, ^H is Ctrl+H).
C17_TwoCharTable ==
  (calls = 1 /\ Len(seq) = 2 /\ At(seq, 1) = "^") =>
    LET ch == At(seq, 2)
        up == IF ch \in LowerSet
              THEN UpperChars[CHOOSE i \in 1..26 : LowerChars[i] = ch] ELSE ch
    IN  /\ ch = "[" => displayName = "Esc"
        /\ ch = "?" => displayName = "Backspace"
        /\ ch \in {"@", "\\", "]", "^", "_"} => displayName = "Ctrl+" \o ch
        /\ up \in UpperSet => displayName = "Ctrl+" \o up

\* ^m was normalized: the label is Ctrl+M
C17_CtrlM ==
  /\ calls = 1
  /\ seq = "^m"
  /\ displayName = "Ctrl+M"

\* C18: normalize is idempotent: for every sequence s,
\* normalize(normalize(s)) = normalize(s), the labels of multi-segment caret
\* sequences included; after the label was normalized in its turn, it is
\* still the label.
C18_NormalizeIdempotent ==
  calls = 2 => displayName = seq

\* C19: a sequence of k >= 2 two-character caret chords ^c1^c2...^ck that
\* does not start with ^[ normalizes to the labels the chords get on their
\* own, joined by single spaces; no chord is dropped.
C19_ChordsJoinOwnLabels ==
  LET k == Len(seq) \div 2
      IsChords == /\ Len(seq) >= 4
                  /\ Len(seq) = 2 * k
                  /\ \A i \in 1..k : At(seq, 2 * i - 1) = "^"
                  /\ At(seq, 2) # "["
      Chord(i) == SubSeq(seq, 2 * i - 1, 2 * i)
      RECURSIVE Joined(_)
      Joined(i) ==
        IF i = 1 THEN normalizeEscapeSequence(Chord(1))
        ELSE Joined(i - 1) \o " " \o normalizeEscapeSequence(Chord(i))
  IN  (calls = 1 /\ IsChords) => displayName = Joined(k)

\* C20: for a sequence that starts with ^[ : ^[^X gives Alt+Ctrl+X; ^[[A, B,
\* C, D give the arrows; ^[[1~ .. ^[[6~, ^[[H, ^[[F give Home, Insert,
\* Delete, End, Page Up, Page Down; one letter gives Alt+<UPPER(letter)>, one
\* space Alt+Space; every other remainder, a bracket code that is not in the
\* table included, gives "Alt+" and the remainder as it is.  (Remainders of a
\* caret and more than one character are left out of the statement.)
C20_EscapePrefix ==
  LET rest == SubSeq(seq, 3, Len(seq))
      Upper(ch) == IF ch \in LowerSet
                   THEN UpperChars[CHOOSE i \in 1..26 : LowerChars[i] = ch] ELSE ch
      Known == [r \in {"[A", "[B", "[C", "[D", "[H", "[F", "[1~", "[2~", "[3~",
                       "[4~", "[5~", "[6~"} |->
                  CASE r = "[A" -> ArrowUp [] r = "[B" -> ArrowDown
                    [] r = "[C" -> ArrowRight [] r = "[D" -> ArrowLeft
                    [] r \in {"[H", "[1~"} -> "Home" [] r \in {"[F", "[4~"} -> "End"
                    [] r = "[2~" -> "Insert" [] r = "[3~" -> "Delete"
                    [] r = "[5~" -> "Page Up" [] r = "[6~" -> "Page Down"]
  IN  (calls = 1 /\ Len(seq) >= 3 /\ SubSeq(seq, 1, 2) = "^[") =>
        IF At(rest, 1) = "^" /\ Len(rest) >= 2
        THEN Len(rest) = 2 => displayName = "Alt+Ctrl+" \o Upper(At(rest, 2))
        ELSE IF rest \in DOMAIN Known THEN displayName = Known[rest]
        ELSE IF Len(rest) = 1 /\ Upper(rest) \in UpperSet
        THEN displayName = "Alt+" \o Upper(rest)
        ELSE IF rest = " " THEN displayName = "Alt+Space"
        ELSE displayName = "Alt+" \o rest

\* C14: parsing a table text in which two lines carry the same raw sequence
\* with different commands, neither of them skipped, yields exactly one
\* entry for that sequence, the first: no two entries of the result have the
\* same EscapeSequence and different WidgetNames.
C14_OneEntryPerSequence ==
  (pc = "done" /\ output # "") =>
    \A i, j \in 1..Len(entries) :
      entries[i].EscapeSequence = entries[j].EscapeSequence =>
        entries[i].WidgetName = entries[j].WidgetName

\* C15: for a table text that is not empty the parser never fails on the
\* content of a line: there is no error; no entry has a widget of the noise
\* list, or one that starts with _ or vi-; every entry's label is
\* normalize(seq); the table of only noise-list widgets yields no entry and
\* the table ^A beginning-of-line / ^E end-of-line / a self-insert exactly the
\* entries Ctrl+A and Ctrl+E.
C15_NeverFailsOnLineContent ==
  (pc = "done" /\ output # "") =>
    /\ err = ""
    /\ \A i \in 1..Len(entries) :
         /\ entries[i].WidgetName \notin skipWidgets
         /\ SubSeq(entries[i].WidgetName, 1, 1) # "_"
         /\ SubSeq(entries[i].WidgetName, 1, 3) # "vi-"
         /\ entries[i].DisplayName = normalizeEscapeSequence(entries[i].EscapeSequence)
    /\ output = NoiseTable => entries = <<>>
    /\ output = ScenarioTable =>
         /\ Len(entries) = 2
         /\ entries[1].DisplayName = "Ctrl+A"
         /\ entries[2].DisplayName = "Ctrl+E"

\* C16: on the empty text the parser starts the live acquisition and returns
\* the entries of what zsh printed, or the error of the acquisition, once zsh
\* has answered; a text that is not empty never starts it.
C16_EmptyInputAcquiresOnce ==
  /\ [](pc = "done" =>
          IF output = ""
          THEN /\ frames >= 1
               /\ \/ err # "" /\ entries = <<>>
                  \/ /\ err = ""
                     /\ entries = filterBindkeyEntries(parseTable(shellOutput).entries)
          ELSE frames = 0 /\ shellOutput = "")
  /\ [][pc = "exec" => pc' = "done"]_vars

(***************************************************************************)
(* The descriptions of the widgets.                                        *)
(***************************************************************************)
\* C21: extracting the first sentence of an extracted first sentence gives
\* that sentence back, whichever branch produced it.
C21_ExtractIdempotent ==
  extractCalls = 2 => shortDescription = fullDescription

\* a text of more than Budget characters without a sentence end, truncated
\* and extracted again
C21_Truncated ==
  /\ extractCalls = 2
  /\ Len(fullDescription) = Budget
  /\ SubSeq(fullDescription, Keep + 1, Budget) = "..."
  /\ sentenceEndRegex(fullDescription) = Budget

\* C22: a short description is at most Budget characters long, or it ends at
\* a punctuation mark found in the text it was extracted from.
C22_BudgetOrTerminator ==
  extractCalls = 1 =>
    \/ Len(shortDescription) <= Budget
    \/ /\ sentenceEndRegex(cleanText(fullDescription)) # 0
       /\ IsSentenceEnd(At(shortDescription, Len(shortDescription)))

\* C23: the short description of a text that is not blank is the text,
\* trimmed and with each run of white space made one blank, up to and
\* including the first . ! or ? that white space or the end of the text
\* follows; without such a mark, a text of more than Budget characters is cut
\* to Keep characters and "...", and a shorter one gets a period.
C23_FirstSentence ==
  extractCalls = 1 /\ cleanText(fullDescription) # "" =>
    LET clean == cleanText(fullDescription)
        n == Len(shortDescription)
        ends == {i \in 1..Len(clean) :
                   /\ At(clean, i) \in {".", "!", "?"}
                   /\ i = Len(clean) \/ At(clean, i + 1) = " "}
    IN  /\ \A i \in 1..Len(clean) :
             /\ At(clean, i) \notin {"\n", "\t", "\r"}
             /\ At(clean, i) = " " => 1 < i /\ i < Len(clean) /\ At(clean, i + 1) # " "
        /\ IF ends # {}
             THEN /\ n \in ends
                  /\ \A j \in ends : n <= j
                  /\ shortDescription = SubSeq(clean, 1, n)
           ELSE IF Len(clean) > Budget
             THEN shortDescription = SubSeq(clean, 1, Keep) \o "..."
           ELSE shortDescription = clean \o "."
        /\ fullDescription = "Finish editing the buffer.  Normally, this will accept the line and execute it."
             => shortDescription = "Finish editing the buffer."

\* the sentence of accept-line, cut at its first period
C23_FinishEditing ==
  /\ extractCalls = 1
  /\ fullDescription = "Finish editing the buffer.  Normally, this will accept the line and execute it."
  /\ shortDescription = "Finish editing the buffer."

\* C24: an entry closed by the next header, by a section or subsection
\* header or by the end of the text with no description line accumulated
\* makes no entry of the map and no error; the names of the sections are
\* never keys; the entries with description lines are in the map, whatever
\* came before them.  header[i] is the widget name of line i when it is a
\* header, closes[i] tells whether line i closes the entry in progress, and
\* accumulated[i] is the number of description lines between line i and the
\* first line after it that closes an entry.
C24_EmptyEntryDropped ==
  manCalls = 1 /\ ~TooLong(content) =>
    LET lines == RawLines(content)
        header == [i \in 1..Len(lines) |-> widgetHeaderRegex(lines[i])] @@ <<>>
        closes == [i \in 1..Len(lines) |->
                     \/ header[i] # ""
                     \/ isNewSection(lines[i])
                     \/ isAnotherWidget(lines[i])] @@ <<>>
        described == [i \in 1..Len(lines) |->
                        TrimSpace(lines[i]) # "" /\ isDescriptionLine(lines[i])] @@ <<>>
        accumulated == [i \in 1..Len(lines) |->
                          Cardinality({k \in (i + 1)..Len(lines) :
                                         /\ \A j \in (i + 1)..k : ~closes[j]
                                         /\ described[k]})] @@ <<>>
    IN  /\ manErr = ""
        /\ \A name \in DOMAIN descriptions :
             \E i \in 1..Len(lines) : header[i] = name /\ accumulated[i] > 0
        /\ \A i \in 1..Len(lines) :
             header[i] # "" /\ accumulated[i] > 0 => header[i] \in DOMAIN descriptions
        /\ DOMAIN descriptions \cap (SectionHeaders \cup SubsectionWords) = {}

\* a header closed at once by a subsection header, and an entry after it
C24_DroppedThenExtracted ==
  /\ manCalls = 1
  /\ content = "       accept-line (^J ^M) (^J ^M) (^J ^M)\n   Movement\n"
                 \o "       backward-char (^B) (unbound) (^B)\n"
                 \o "              Finish editing the buffer.  Normally, this will accept the line\n"
  /\ DOMAIN descriptions = {"backward-char"}
  /\ manErr = ""

(***************************************************************************)
(* The assembler of the catalog.                                           *)
(***************************************************************************)
\* C25: the catalog has one shortcut for each entry of the binding table and
\* no other: its label is the entry's label, its target the widget, its type
\* "widget", and it is not custom; its two descriptions are those of the
\* widget in the map, and the name of the widget when the map has none.
C25_OneShortcutPerEntry ==
  convertCalls = 1 =>
    LET n == Len(bindkeyEntries)
        expected(e) ==
          [Display |-> e.DisplayName,
           Description |-> IF e.WidgetName \in DOMAIN manDescriptions
                           THEN manDescriptions[e.WidgetName].ShortDescription
                           ELSE e.WidgetName,
           FullDescription |-> IF e.WidgetName \in DOMAIN manDescriptions
                               THEN manDescriptions[e.WidgetName].FullDescription
                               ELSE e.WidgetName,
           Type |-> "widget",
           Target |-> e.WidgetName,
           IsCustom |-> FALSE]
    IN  /\ Len(converted) = n
        /\ \E f \in [1..n -> 1..n] :
             /\ \A i, j \in 1..n : i # j => f[i] # f[j]
             /\ \A i \in 1..n : converted[f[i]] = expected(bindkeyEntries[i])

\* the table of the test: two widgets of the map and one that falls back to
\* its name
C25_FallbackToName ==
  /\ convertCalls = 1
  /\ Len(converted) = 3
  /\ converted[1].Display = "Ctrl+A"
  /\ converted[1].Description = "Move to the beginning of the line."
  /\ converted[1].FullDescription # converted[1].Description
  /\ converted[3].Display = "Ctrl+F"
  /\ converted[3].Description = "forward-char"
  /\ converted[3].FullDescription = "forward-char"

(***************************************************************************)
(* The cache.                                                              *)
(***************************************************************************)
\* C26: LoadCache on no file returns nil and no error; on a file that cannot
\* be read or does not decode it returns an error and nil, never an empty
\* snapshot; on a file that decodes it returns what the file holds, whenever
\* it was written.
C26_LoadOutcomes ==
  cacheOp = "load" =>
    LET decodes == cacheFile.opens /\ cacheFile.json /\ documentFits(cacheFile.doc)
    IN  /\ ~cacheFile.found => cacheData = <<>> /\ cacheErr = ""
        /\ cacheFile.found /\ ~decodes => cacheData = <<>> /\ cacheErr # ""
        /\ cacheFile.found /\ decodes =>
             /\ cacheErr = ""
             /\ cacheData = <<unmarshalCacheData(cacheFile.doc)>>
             /\ cacheFile.doc.kind = "object"
                  /\ "cache_version" \in DOMAIN cacheFile.doc.fields =>
                  cacheData[1].CacheVersion = cacheFile.doc.fields["cache_version"].str

\* the file of TestLoadCacheInvalidJSON loaded
C26_InvalidJSON ==
  /\ cacheOp = "load"
  /\ cacheFile = TextFile("invalid json")
  /\ cacheData = <<>>
  /\ cacheErr = ErrParseCache

\* C27: when SaveCache, LoadCache and ClearCache are called in any order,
\* LoadCache returns the bindings and the descriptions of the last SaveCache
\* with version "1.0" unless no SaveCache was called or a ClearCache came
\* after it, and then it returns nil without an error; ClearCache returns no
\* error, also when there is no file; LoadCache leaves the file as it is.
C27_CacheLifecycle ==
  /\ [](cacheOp = "load" =>
          /\ cacheErr = ""
          /\ saved = <<>> => cacheData = <<>>
          /\ saved # <<>> =>
               /\ cacheData # <<>>
               /\ cacheData[1].BindkeyEntries = saved[1].BindkeyEntries
               /\ cacheData[1].ManDescriptions = saved[1].ManDescriptions
               /\ cacheData[1].CacheVersion = "1.0")
  /\ [](cacheOp = "clear" => cacheErr = "" /\ ~cacheFile.found)
  /\ [][cacheOp' = "load" => cacheFile' = cacheFile]_vars

\* the table of TestSaveAndLoadCache saved over another and loaded
C27_SavedThenLoaded ==
  /\ cacheOp = "load"
  /\ saved # <<>>
  /\ cacheData # <<>>
  /\ Len(cacheData[1].BindkeyEntries) = 2
  /\ cacheData[1].BindkeyEntries[2].DisplayName = "Ctrl+E"
  /\ cacheData[1].ManDescriptions = DescriptionPool
  /\ cacheData[1].Timestamp = [wall |-> "2025-06-30T23:59:59Z", monotonic |-> FALSE]

(***************************************************************************)
(* The merge of the configuration onto the catalog.                        *)
(***************************************************************************)
\* C28: when a key of the configuration has the value false, its label is
\* that of a shortcut of the catalog and no key of the same label visited
\* after it writes a shortcut, the result has no shortcut of that label and
\* none of the catalog's shortcuts of that label, every shortcut of the
\* catalog whose label no key of the configuration has is in the result as
\* it was, and the result holds the shortcuts of the map and no other; a
\* configuration of that one key returns the catalog without the shortcut.
\* The label is that of normalizeKey, for the key and for the Display.
C28_DisableRemovesEntry ==
  mergeCalls = 1 =>
    LET n == Len(rangeOrder)
        ruleLabel == [i \in 1..n |-> normalizeKey(rangeOrder[i])]
        ruleValue == [i \in 1..n |-> config[rangeOrder[i]]]
        catalogLabel == [b \in 1..Len(builtins) |-> normalizeKey(builtins[b].Display)]
        writes(i) == \/ ruleValue[i].kind = "object"
                     \/ ruleValue[i].kind = "string" /\ ruleValue[i].str # ""
        disables(i) ==
          /\ ruleValue[i] = ConfigBool(FALSE)
          /\ \E b \in 1..Len(builtins) : catalogLabel[b] = ruleLabel[i]
          /\ \A j \in (i + 1)..n : ruleLabel[j] = ruleLabel[i] => ~writes(j)
    IN  \A i \in 1..n :
          disables(i) =>
            /\ ruleLabel[i] \notin DOMAIN shortcutMap
            /\ \A b \in 1..Len(builtins), m \in 1..Len(merged) :
                 catalogLabel[b] = ruleLabel[i] => merged[m] # builtins[b]
            /\ \A b \in 1..Len(builtins) :
                 (\A j \in 1..n : ruleLabel[j] # catalogLabel[b]) =>
                   /\ catalogLabel[b] \in DOMAIN shortcutMap
                   /\ shortcutMap[catalogLabel[b]] = builtins[b]
                   /\ \E m \in 1..Len(merged) : merged[m] = builtins[b]
            /\ Len(merged) = Cardinality(DOMAIN shortcutMap)
            /\ {merged[m] : m \in 1..Len(merged)}
                 = {shortcutMap[key] : key \in DOMAIN shortcutMap}
            /\ n = 1 =>
                 merged = SelectSeq(builtins,
                            LAMBDA shortcut : normalizeKey(shortcut.Display) # ruleLabel[i])

\* C29 as it is stated: when a key with the value false is visited before a
\* key of the same label with a string, and no key of that label after it,
\* the result has a shortcut of that label whose description is the string.
C29_OverrideSurvives ==
  mergeCalls = 1 =>
    LET n == Len(rangeOrder)
        ruleLabel == [i \in 1..n |-> normalizeKey(rangeOrder[i])]
        ruleValue == [i \in 1..n |-> config[rangeOrder[i]]]
    IN  \A i, j \in 1..n :
          /\ i < j
          /\ ruleValue[i] = ConfigBool(FALSE)
          /\ ruleValue[j].kind = "string"
          /\ ruleLabel[i] = ruleLabel[j]
          /\ \A k \in (j + 1)..n : ruleLabel[k] # ruleLabel[j]
          => /\ ruleLabel[j] \in DOMAIN shortcutMap
             /\ shortcutMap[ruleLabel[j]].Description = ruleValue[j].str
             /\ \E m \in 1..Len(merged) : merged[m] = shortcutMap[ruleLabel[j]]

\* C29 amended: when a key with the value false is visited before a key of
\* the same label with a string that is not empty, and no key of that label
\* after it, the result has a shortcut of that label whose description is
\* the string; an empty string writes nothing, and after it the label is
\* still absent when no key of the label visited before it wrote a shortcut.
C29_NonEmptyOverrideSurvives ==
  mergeCalls = 1 =>
    LET n == Len(rangeOrder)
        ruleLabel == [i \in 1..n |-> normalizeKey(rangeOrder[i])]
        ruleValue == [i \in 1..n |-> config[rangeOrder[i]]]
        writes(i) == \/ ruleValue[i].kind = "object"
                     \/ ruleValue[i].kind = "string" /\ ruleValue[i].str # ""
    IN  \A i, j \in 1..n :
          /\ i < j
          /\ ruleValue[i] = ConfigBool(FALSE)
          /\ ruleValue[j].kind = "string"
          /\ ruleLabel[i] = ruleLabel[j]
          /\ \A k \in (j + 1)..n : ruleLabel[k] # ruleLabel[j]
          => IF ruleValue[j].str # ""
             THEN /\ ruleLabel[j] \in DOMAIN shortcutMap
                  /\ shortcutMap[ruleLabel[j]].Description = ruleValue[j].str
                  /\ shortcutMap[ruleLabel[j]].IsCustom
                  /\ \E m \in 1..Len(merged) : merged[m] = shortcutMap[ruleLabel[j]]
             ELSE (\A k \in (i + 1)..(j - 1) : ruleLabel[k] = ruleLabel[j] => ~writes(k))
                    => ruleLabel[j] \notin DOMAIN shortcutMap

\* Ctrl+A disabled, then described under another spelling: the shortcut of
\* the result is a command made of the string
C29_DisabledThenDescribed ==
  /\ mergeCalls = 1
  /\ builtins = TestBuiltins
  /\ rangeOrder = <<"Ctrl+A", "ctrl+a">>
  /\ config["Ctrl+A"] = ConfigBool(FALSE)
  /\ config["ctrl+a"] = ConfigString("Custom end of line")
  /\ merged[2] = [Display |-> "Ctrl+A", Description |-> "Custom end of line",
                  FullDescription |-> "", Type |-> "command",
                  Target |-> "Custom end of line", IsCustom |-> TRUE]

\* C30: what mergeShortcuts returned it can return in whatever order the keys
\* of the configuration are visited.
C30_OrderIndependent ==
  mergeCalls = 1 =>
    \A order \in RangeOrders(config) :
      merged \in mergeShortcuts(builtins, config, order)

\* C31: no two shortcuts of the result of mergeShortcuts have one Display.
C31_UniqueLabels ==
  mergeCalls = 1 =>
    \A i, j \in 1..Len(merged) : i # j => merged[i].Display # merged[j].Display

\* C32: with no key in the configuration mergeShortcuts returns the
\* shortcuts of the catalog, as many and each as it was, sorted by Display.
C32_EmptyConfigKeepsCatalog ==
  (mergeCalls = 1 /\ DOMAIN config = {}) =>
    /\ Len(merged) = Len(builtins)
    /\ \A b \in 1..Len(builtins) : \E m \in 1..Len(merged) : merged[m] = builtins[b]
    /\ \A m \in 1..(Len(merged) - 1) :
         ~StringLess(merged[m + 1].Display, merged[m].Display)

\* C33: with one key in the configuration and a string as its value, when
\* the label of the key is that of a shortcut of the catalog the result has
\* as many shortcuts as the catalog, that shortcut with the string as its
\* Description and IsCustom true and its other fields as they were, and the
\* other shortcuts as they were; when no shortcut of the catalog has the
\* label the result has one shortcut more, of Display the label, Type
\* "command", Description and Target the string and IsCustom true.
C33_StringOverride ==
  (mergeCalls = 1 /\ Len(rangeOrder) = 1 /\ config[rangeOrder[1]].kind = "string") =>
    LET v == config[rangeOrder[1]].str
        normalizedKey == normalizeKey(rangeOrder[1])
        catalogLabel == [b \in 1..Len(builtins) |-> normalizeKey(builtins[b].Display)]
        inResult(shortcut) == \E m \in 1..Len(merged) : merged[m] = shortcut
    IN  IF \E b \in 1..Len(builtins) : catalogLabel[b] = normalizedKey
        THEN /\ Len(merged) = Len(builtins)
             /\ \A b \in 1..Len(builtins) :
                  IF catalogLabel[b] = normalizedKey
                  THEN inResult([builtins[b] EXCEPT !.Description = v, !.IsCustom = TRUE])
                  ELSE inResult(builtins[b])
        ELSE /\ Len(merged) = Len(builtins) + 1
             /\ inResult([Display |-> normalizedKey, Description |-> v,
                          FullDescription |-> "", Type |-> "command",
                          Target |-> v, IsCustom |-> TRUE])
             /\ \A b \in 1..Len(builtins) : inResult(builtins[b])

\* C34: when a key of the configuration has a table as its value and is the
\* last key of its label visited, the map holds under that label, and the
\* result holds, a shortcut that is custom and has each of Display,
\* Description, Type and Target the table gives as a string; when no key of
\* the label was visited before it, the fields the table does not give are
\* those of the last shortcut of the catalog with that label, and with no
\* such shortcut Display is the label and the other fields are empty.
C34_ObjectOverride ==
  mergeCalls = 1 =>
    LET n == Len(rangeOrder)
        ruleLabel == [i \in 1..n |-> normalizeKey(rangeOrder[i])] @@ <<>>
        ruleValue == [i \in 1..n |-> config[rangeOrder[i]]]
        blank(normalizedKey) ==
          [Display |-> normalizedKey, Description |-> "", FullDescription |-> "",
           Type |-> "", Target |-> "", IsCustom |-> TRUE]
        catalogLabel ==
          [b \in 1..Len(builtins) |-> normalizeKey(builtins[b].Display)] @@ <<>>
        withLabel(normalizedKey) ==
          {b \in 1..Len(builtins) : catalogLabel[b] = normalizedKey}
        existing(normalizedKey) ==
          builtins[CHOOSE b \in withLabel(normalizedKey) :
                     \A other \in withLabel(normalizedKey) : other <= b]
        start(normalizedKey) ==
          IF withLabel(normalizedKey) = {} THEN blank(normalizedKey)
          ELSE existing(normalizedKey)
        given(v, name) == name \in DOMAIN v.fields /\ v.fields[name].kind = "string"
    IN  \A i \in 1..n :
          (/\ ruleValue[i].kind = "object"
           /\ \A j \in (i + 1)..n : ruleLabel[j] # ruleLabel[i])
          => /\ ruleLabel[i] \in DOMAIN shortcutMap
             /\ \E m \in 1..Len(merged) : merged[m] = shortcutMap[ruleLabel[i]]
             /\ LET v == ruleValue[i]
                    shortcut == shortcutMap[ruleLabel[i]]
                    first == \A j \in 1..(i - 1) : ruleLabel[j] # ruleLabel[i]
                    from == start(ruleLabel[i])
                IN  /\ shortcut.IsCustom
                    /\ given(v, "display") => shortcut.Display = v.fields["display"].str
                    /\ given(v, "description") =>
                         shortcut.Description = v.fields["description"].str
                    /\ given(v, "type") => shortcut.Type = v.fields["type"].str
                    /\ given(v, "target") => shortcut.Target = v.fields["target"].str
                    /\ first =>
                         /\ ~given(v, "display") => shortcut.Display = from.Display
                         /\ ~given(v, "description") =>
                              shortcut.Description = from.Description
                         /\ ~given(v, "type") => shortcut.Type = from.Type
                         /\ ~given(v, "target") => shortcut.Target = from.Target
                         /\ shortcut.FullDescription = from.FullDescription

\* the partial override of TestMergeShortcutsWithObjectConfig: Ctrl+A keeps
\* its type and its target and has the description of the table
C34_PartialOverride ==
  /\ mergeCalls = 1
  /\ builtins = TestBuiltins
  /\ rangeOrder = <<"Ctrl+A">>
  /\ config["Ctrl+A"].kind = "object"
  /\ merged[2] = [TestBuiltins[2] EXCEPT !.Description = "Start of line",
                                         !.IsCustom = TRUE]

(***************************************************************************)
(* The filter of the binding table.                                        *)
(***************************************************************************)
\* C35 as it is stated: filterBindkeyEntries returns, in their order, the
\* entries of its input whose label is not empty, is not one printable
\* character and is not the label of an entry before them; the labels of the
\* result are pairwise distinct.
C35_FirstOfEachLabel ==
  entryFilterCalls = 1 =>
    LET n == Len(unfilteredEntries)
        label == [i \in 1..n |-> unfilteredEntries[i].DisplayName]
        kept == {i \in 1..n :
                   /\ label[i] # ""
                   /\ ~(Len(label[i]) = 1 /\ IsPrint(label[i]))
                   /\ \A j \in 1..(i - 1) : label[j] # label[i]}
        size == Len(usefulEntries)
    IN  /\ size = Cardinality(kept)
        /\ \E f \in [1..size -> kept] :
             /\ \A a, b \in 1..size : a < b => f[a] < f[b]
             /\ \A a \in 1..size : usefulEntries[a] = unfilteredEntries[f[a]]
        /\ \A a, b \in 1..size :
             a # b => usefulEntries[a].DisplayName # usefulEntries[b].DisplayName

\* C35 amended: the same, but an entry whose label is the caret alone is
\* kept.
C35_FirstOfEachLabelButCaret ==
  entryFilterCalls = 1 =>
    LET n == Len(unfilteredEntries)
        label == [i \in 1..n |-> unfilteredEntries[i].DisplayName]
        kept == {i \in 1..n :
                   /\ label[i] # ""
                   /\ ~(Len(label[i]) = 1 /\ IsPrint(label[i]) /\ label[i] # "^")
                   /\ \A j \in 1..(i - 1) : label[j] # label[i]}
        size == Len(usefulEntries)
    IN  /\ size = Cardinality(kept)
        /\ \E f \in [1..size -> kept] :
             /\ \A a, b \in 1..size : a < b => f[a] < f[b]
             /\ \A a \in 1..size : usefulEntries[a] = unfilteredEntries[f[a]]
        /\ \A a, b \in 1..size :
             a # b => usefulEntries[a].DisplayName # usefulEntries[b].DisplayName

\* a table with Ctrl+A twice, a letter and the caret: the first Ctrl+A and
\* the caret are returned
C35_DuplicateAndCaret ==
  /\ entryFilterCalls = 1
  /\ Len(unfilteredEntries) = 3
  /\ unfilteredEntries[1].WidgetName = "different-widget"
  /\ unfilteredEntries[2].DisplayName = "^"
  /\ unfilteredEntries[3].WidgetName = "beginning-of-line"
  /\ usefulEntries = <<unfilteredEntries[1], unfilteredEntries[2]>>

(***************************************************************************)
(* The list of the picker over whole runs.                                 *)
(***************************************************************************)
\* the messages that move, click, scroll, resize, expand and collapse
IsNavigation(m) ==
  \/ m.type \in {"MouseMsg", "WindowSizeMsg"}
  \/ \E k \in {"up", "down", "left", "right", "ctrl+d", "ctrl+u"} : IsKey(m, k)

\* C36: after any sequence of events filtered is the result of filtering the
\* catalog by the query (the catalog itself when the query is empty); no event
\* changes the catalog; navigation, mouse, resize and expand/collapse events
\* change neither the query nor filtered.
C36_FilteredFollowsQuery ==
  /\ [](/\ filtered = filterShortcuts(shortcuts, query)
        /\ (query = "" => filtered = shortcuts))
  /\ [][/\ shortcuts' = shortcuts
        /\ IsNavigation(msg') => UNCHANGED <<query, filtered>>
    ]_vars

\* a query that keeps some entries and drops others, the cursor moved down in
\* the filtered list
C36_MovedInFilteredList ==
  /\ IsKey(msg, "down")
  /\ query # ""
  /\ Len(filtered) > 1
  /\ Len(filtered) < Len(shortcuts)
  /\ cursor = 1

\* C37: on an empty filtered list enter and tab leave the whole model as it
\* is (no selection, the loop goes on), only escape and ctrl+c end the loop,
\* and right does not start expanded mode.
C37_EmptyListOnlyQuits ==
  [][Len(filtered) = 0 =>
       /\ (IsKey(msg', "enter") \/ IsKey(msg', "tab")) =>
            /\ UNCHANGED modelVars
            /\ selected' = <<>>
            /\ ~quitting'
       /\ quitting' => (IsKey(msg', "esc") \/ IsKey(msg', "ctrl+c"))
       /\ IsKey(msg', "right") => UNCHANGED expandedVars
    ]_vars

\* enter pressed on a query that matches nothing: the loop goes on
C37_EnterOnNoMatch ==
  /\ IsKey(msg, "enter")
  /\ query # ""
  /\ Len(filtered) = 0
  /\ ~expandedMode
  /\ selected = <<>>
  /\ ~quitting

\* C38: in expanded mode, after any sequence of events, expandedScrollOffset
\* is at most max(0, L - visible window), L being the number of wrapped lines
\* of the description of the entry under the cursor as the detail pane shows
\* it; so the pane never shows no line at all.
C38_ScrollWithinShownText ==
  expandedMode =>
    LET wrappedLines == wrappedDisplayLines(filtered, cursor, width)
    IN  /\ expandedScrollOffset <= Max(0, Len(wrappedLines) - maxVisible)
        /\ expandedScrollOffset < Len(wrappedLines)

(***************************************************************************)
(* Termination of the parser.                                              *)
(***************************************************************************)
\* C39: parseBindkeyOutput returns a result or an error after finitely many
\* steps and at most one live acquisition, also when it is called with the
\* empty text and zsh prints nothing: within one call zsh is started at most
\* once, and a call that has ended started it at most once.
C39_AtMostOneAcquisition ==
  /\ frames <= 1
  /\ (pc = "exec" /\ shellOutput = "") => frames = 1

(***************************************************************************)
(* The two normalizers.                                                    *)
(***************************************************************************)
\* C40: normalizeKey and normalizeEscapeSequence give the same label for
\* every two-character caret sequence ^A..^Z, ^a..^z, ^@, ^[, ^\, ^], ^_, so
\* that a rule keyed by the raw sequence has the label of the entry the parser
\* made for that sequence.
C40_NormalizersAgreeOnCaret ==
  (calls = 1 /\ caretRegex(seq)) => normalizeKey(seq) = displayName

============================================================================
